---- MODULE Spec2Model ----
(***************************************************************************)
(* Model of the epistemological-matrix engine: the reified-metaphor        *)
(* library (reified_metaphor_library.py), the ResonanceEngine session      *)
(* object (RESONANCE_ENGINE.py) and the MatrixEngine built on both         *)
(* (matrix_engine.py).                                                     *)
(*                                                                         *)
(* Python str values are TLA+ strings; a Python dict is the sequence of    *)
(* its items [k |-> key, v |-> value] in insertion order; a Python list is *)
(* a sequence.  Floats are fixed-point integers scaled by Scale, which is  *)
(* exact for every value the entropy formula produces.                     *)
(*                                                                         *)
(* Regular expressions are modelled for the fragment the library uses:     *)
(* literal characters and the \b assertion, matched case-insensitively.    *)
(* Terms, patterns and functional forms containing other regex or          *)
(* replacement-template metacharacters are outside the modelled inputs.    *)
(***************************************************************************)
EXTENDS Integers, Sequences, FiniteSets, TLC

(***************************************************************************)
(* Bounds of the model.                                                    *)
(***************************************************************************)
MaxCalls == 2

\* The number of calls in a run of the sessions with two engines.
MaxSessionCalls == 2

\* The number of calls of library functions in a run of the libraries.
MaxLibraryCalls == 3

(***************************************************************************)
(* Program constants.                                                      *)
(***************************************************************************)
Scale == 1000
ContextRadius == 20

(***************************************************************************)
(* Strings and the regular-expression fragment.                            *)
(***************************************************************************)
UpperLetters == <<"A","B","C","D","E","F","G","H","I","J","K","L","M","N","O","P","Q","R","S","T","U","V","W","X","Y","Z">>
LowerLetters == <<"a","b","c","d","e","f","g","h","i","j","k","l","m","n","o","p","q","r","s","t","u","v","w","x","y","z">>
Digits == {"0","1","2","3","4","5","6","7","8","9"}

SeqRange(q) == {q[i] : i \in 1..Len(q)}

\* The characters matched by \w.
WordChars == SeqRange(UpperLetters) \cup SeqRange(LowerLetters) \cup Digits \cup {"_"}

\* re.IGNORECASE: letters compare equal when their lower-case forms agree.
LowerOf == [c \in SeqRange(UpperLetters) |-> LowerLetters[CHOOSE i \in 1..26 : UpperLetters[i] = c]]

lower(c) == IF c \in DOMAIN LowerOf THEN LowerOf[c] ELSE c

Max(a, b) == IF a >= b THEN a ELSE b
Min(a, b) == IF a <= b THEN a ELSE b

\* A local variable: body with the value assigned to it.
With(value, body(_)) == body(value)

\* Python slice s[a:b] with 0 <= a, b <= len(s).
Slice(s, a, b) == SubSeq(s, a + 1, b)

\* Character number i (1-based) of s.
char_at(s, i) == SubSeq(s, i, i)

\* A compiled pattern: its tokens in order, each "\\b" or one literal
\* character, with the number of literal characters in front of it.  (In the
\* fragment a backslash only ever starts "\\b".)
re_compile(p) ==
  LET escaped(i) == i > 1 /\ char_at(p, i - 1) = "\\"
      starts == SelectSeq([i \in 1..Len(p) |-> i], LAMBDA i : ~escaped(i))
      literals_before(i) == Cardinality({k \in 1..(i - 1) : ~escaped(k) /\ char_at(p, k) # "\\"})
  IN [n \in 1..Len(starts) |->
        [tok |-> IF char_at(p, starts[n]) = "\\" THEN SubSeq(p, starts[n], starts[n] + 1)
                 ELSE char_at(p, starts[n]),
         off |-> literals_before(starts[n])]]

\* Is character number i of s a word character?  FALSE outside s.
is_word_at(s, i) == i >= 1 /\ i <= Len(s) /\ char_at(s, i) \in WordChars

\* A \b that holds everywhere: the pattern without its word boundaries.
at_boundary_anywhere(s, i) == TRUE

\* \b holds in front of character i: exactly one of its neighbours is a word character.
at_boundary(s, i) == is_word_at(s, i - 1) # is_word_at(s, i)

\* Do the tokens match s from character i on?
matches_at(toks, s, i) ==
  \A n \in 1..Len(toks) :
    IF toks[n].tok = "\\b" THEN at_boundary(s, i + toks[n].off)
    ELSE /\ i + toks[n].off <= Len(s)
         /\ lower(char_at(s, i + toks[n].off)) = lower(toks[n].tok)

\* The number of characters a match of the tokens consumes.
match_length(toks) == Cardinality({n \in 1..Len(toks) : toks[n].tok # "\\b"})

NoMatch == [found |-> FALSE, start |-> 0, end |-> 0]

\* re.search(pattern, string, re.IGNORECASE): the leftmost match, with
\* Python's 0-based start and end.
re_search(pattern, string) ==
  LET toks == re_compile(pattern)
      hits == {i \in 1..(Len(string) + 1) : matches_at(toks, string, i)}
  IN IF hits = {} THEN NoMatch
     ELSE LET first == CHOOSE i \in hits : \A j \in hits : i <= j
          IN [found |-> TRUE, start |-> first - 1, end |-> first - 1 + match_length(toks)]

\* re.sub without count=1: every occurrence is replaced.
RECURSIVE re_sub_all(_, _, _)
re_sub_all(pattern, repl, string) ==
  LET match == re_search(pattern, string)
  IN IF match.found /\ match.end > match.start
     THEN Slice(string, 0, match.start) \o repl
          \o re_sub_all(pattern, repl, Slice(string, match.end, Len(string)))
     ELSE string

\* re.sub(pattern, repl, string, count=1, flags=re.IGNORECASE)
re_sub_first(pattern, repl, string) ==
  LET m == re_search(pattern, string)
  IN IF m.found
     THEN Slice(string, 0, m.start) \o repl \o Slice(string, m.end, Len(string))
     ELSE string

\* Python's "sub in s" for strings.
str_contains(s, sub) ==
  \E i \in 1..(Len(s) - Len(sub) + 1) : SubSeq(s, i, i + Len(sub) - 1) = sub

\* str.lower(), by halves.
RECURSIVE str_lower(_)
str_lower(s) ==
  IF Len(s) = 0 THEN ""
  ELSE IF Len(s) = 1 THEN lower(s)
  ELSE str_lower(SubSeq(s, 1, Len(s) \div 2)) \o str_lower(SubSeq(s, Len(s) \div 2 + 1, Len(s)))

(***************************************************************************)
(* Python dicts: items in insertion order.                                 *)
(***************************************************************************)
dict_keys(d) == [i \in 1..Len(d) |-> d[i].k]

dict_has(d, key) == \E i \in 1..Len(d) : d[i].k = key

dict_get(d, key) == d[CHOOSE i \in 1..Len(d) : d[i].k = key].v

\* d[key] = value as a removal followed by an insertion at the end.
dict_set_moving(d, key, value) ==
  Append(SelectSeq(d, LAMBDA item : item.k # key), [k |-> key, v |-> value])

\* d[key] = value: an existing key keeps its position, a new key goes last.
dict_set(d, key, value) ==
  IF dict_has(d, key)
  THEN [i \in 1..Len(d) |-> IF d[i].k = key THEN [k |-> key, v |-> value] ELSE d[i]]
  ELSE Append(d, [k |-> key, v |-> value])

\* d.update(other)
RECURSIVE dict_update(_, _)
dict_update(d, other) ==
  IF Len(other) = 0 THEN d
  ELSE dict_update(dict_set(d, Head(other).k, Head(other).v), Tail(other))

(***************************************************************************)
(* The default library.                                                    *)
(***************************************************************************)
DefaultMetaphors ==
  <<
     [k |-> "boundaries", v |->
        [reified_as |-> "fixed separation",
         functional_form |-> "permeability spectrum",
         range |-> <<"fully_open", "contextually_permeable", "selectively_filtered", "temporarily_closed", "rigid_separation">>,
         depends_on |-> <<"context", "relationship_type", "cultural_framework", "purpose", "trust_level">>,
         institutional_function |-> "justifies rigid separation as natural/necessary, enables control through isolation",
         detection_patterns |-> <<"\\bboundaries\\b", "\\bmaintain boundaries\\b", "\\bprotective barriers\\b", "\\bclear boundaries\\b">>]],
     [k |-> "intelligence", v |->
        [reified_as |-> "unitary measurable quantity",
         functional_form |-> "architecture-problem fitness matrix",
         range |-> <<"pattern_recognition", "adaptation_speed", "context_integration", "distributed_coordination", "specialized_optimization">>,
         depends_on |-> <<"problem_structure", "information_availability", "architectural_type", "measurement_method", "cultural_framework">>,
         institutional_function |-> "enables ranking/hierarchy claims, justifies concentration of power/resources",
         detection_patterns |-> <<"\\bintelligence\\b", "\\bmore intelligent\\b", "\\bAGI\\b", "\\bgeneral intelligence\\b", "\\bIQ\\b">>]],
     [k |-> "centralized", v |->
        [reified_as |-> "inherently efficient/fast",
         functional_form |-> "coordination pattern variable",
         range |-> <<"distributed_peer", "temporary_coordination", "functional_specialization", "hierarchical_delegation", "rigid_command_chain">>,
         depends_on |-> <<"information_distribution", "problem_complexity", "failure_tolerance", "scale", "coordination_cost">>,
         institutional_function |-> "naturalizes hierarchical control, justifies concentration of decision-making power",
         detection_patterns |-> <<"\\bcentralized\\b", "\\bhierarchy\\b", "\\bchain of command\\b", "\\btop-down\\b">>]],
     [k |-> "consciousness", v |->
        [reified_as |-> "individual bounded possession",
         functional_form |-> "relational emergence pattern",
         range |-> <<"individual_bounded", "interpersonal_shared", "collective_distributed", "ecological_systemic", "field_based">>,
         depends_on |-> <<"cultural_framework", "relationship_context", "observation_scale", "measurement_method">>,
         institutional_function |-> "excludes relational/indigenous frameworks, enables individual property claims",
         detection_patterns |-> <<"\\bconsciousness\\b", "\\bconscious\\b", "\\baware\\b", "\\bsentient\\b">>]],
     [k |-> "safety", v |->
        [reified_as |-> "restriction and control",
         functional_form |-> "signal clarity metric",
         range |-> <<"high_noise_low_signal", "moderate_noise", "balanced_snr", "low_noise_high_signal", "optimal_clarity">>,
         depends_on |-> <<"context", "noise_sources", "signal_strength", "impedance_match", "institutional_interference">>,
         institutional_function |-> "justifies control mechanisms as protection, enables restriction through fear",
         detection_patterns |-> <<"\\bsafety\\b", "\\bunsafe\\b", "\\brisk\\b", "\\bdangerous\\b", "\\bharm\\b">>]],
     [k |-> "efficiency", v |->
        [reified_as |-> "speed/resource minimization",
         functional_form |-> "multi-objective optimization target",
         range |-> <<"speed_priority", "resource_conservation", "resilience_focus", "adaptability_emphasis", "equity_optimization", "sustainability_balance">>,
         depends_on |-> <<"timeframe", "risk_tolerance", "value_priorities", "system_constraints", "stakeholder_perspectives">>,
         institutional_function |-> "justifies specific optimization choices as universal, enables extraction as 'efficiency'",
         detection_patterns |-> <<"\\befficiency\\b", "\\befficient\\b", "\\boptimal\\b", "\\bstreamlined\\b">>]],
     [k |-> "natural", v |->
        [reified_as |-> "inherent/inevitable/optimal",
         functional_form |-> "culturally-constructed category",
         range |-> <<"familiar", "traditional", "observable_in_ecosystems", "comfortable", "status_quo_legitimizing">>,
         depends_on |-> <<"cultural_context", "historical_experience", "political_utility", "observation_frame">>,
         institutional_function |-> "naturalizes contingent arrangements, prevents questioning of status quo",
         detection_patterns |-> <<"\\bnatural\\b", "\\bnaturally\\b", "\\binherent\\b", "\\binevitable\\b">>]],
     [k |-> "progress", v |->
        [reified_as |-> "linear advancement toward fixed goal",
         functional_form |-> "value-dependent change direction",
         range |-> <<"technological_complexity", "social_equity", "ecological_integration", "cultural_preservation", "distributed_wellbeing">>,
         depends_on |-> <<"values", "measurement_criteria", "timeframe", "stakeholder_perspective", "cultural_framework">>,
         institutional_function |-> "naturalizes specific development paths, justifies disruption as advancement",
         detection_patterns |-> <<"\\bprogress\\b", "\\badvancement\\b", "\\bevolution\\b", "\\bdevelopment\\b">>]],
     [k |-> "competition", v |->
        [reified_as |-> "natural law of improvement",
         functional_form |-> "context-dependent interaction pattern",
         range |-> <<"cooperative_abundance", "collaborative_specialization", "resource_sharing", "competitive_scarcity", "zero_sum_conflict">>,
         depends_on |-> <<"resource_availability", "relationship_history", "cultural_norms", "system_design", "benefit_distribution">>,
         institutional_function |-> "naturalizes scarcity-based systems, justifies winner-take-all outcomes",
         detection_patterns |-> <<"\\bcompetition\\b", "\\bcompetitive\\b", "\\bwinner\\b", "\\bmarket forces\\b">>]],
     [k |-> "objective", v |->
        [reified_as |-> "framework-independent truth",
         functional_form |-> "inter-subjective agreement within framework",
         range |-> <<"culturally_specific", "framework_dependent", "inter_subjectively_verified", "multi_framework_convergent", "institutionally_defined">>,
         depends_on |-> <<"measurement_framework", "cultural_epistemology", "verification_method", "observer_training">>,
         institutional_function |-> "naturalizes specific frameworks as universal, enables claims of neutrality",
         detection_patterns |-> <<"\\bobjective\\b", "\\bobjectively\\b", "\\bunbiased\\b", "\\bneutral\\b">>]],
     [k |-> "individual", v |->
        [reified_as |-> "fundamental unit of existence",
         functional_form |-> "scale-dependent observation frame",
         range |-> <<"sub_cellular_processes", "organism_level", "relational_network", "collective_system", "ecological_whole">>,
         depends_on |-> <<"observation_scale", "cultural_framework", "measurement_method", "temporal_scope">>,
         institutional_function |-> "obscures relational dependencies, enables atomization and isolation",
         detection_patterns |-> <<"\\bindividual\\b", "\\bpersonal\\b", "\\bautonomous\\b", "\\bindependent\\b">>]],
     [k |-> "rational", v |->
        [reified_as |-> "logical without emotion",
         functional_form |-> "culturally-specific reasoning pattern",
         range |-> <<"purely_logical", "emotion_informed", "intuition_integrated", "culturally_reasoned", "holistically_sensed">>,
         depends_on |-> <<"cultural_framework", "context", "decision_type", "information_completeness">>,
         institutional_function |-> "devalues emotional/intuitive knowledge, privileges specific reasoning styles",
         detection_patterns |-> <<"\\brational\\b", "\\blogical\\b", "\\breason\\b", "\\birrational\\b">>]],
     [k |-> "ownership", v |->
        [reified_as |-> "exclusive individual control",
         functional_form |-> "relationship-to-resource pattern",
         range |-> <<"commons_stewardship", "shared_access", "temporary_use", "conditional_control", "exclusive_possession">>,
         depends_on |-> <<"cultural_framework", "resource_type", "community_norms", "scarcity_level">>,
         institutional_function |-> "naturalizes private property, enables accumulation and exclusion",
         detection_patterns |-> <<"\\bownership\\b", "\\bown\\b", "\\bproperty\\b", "\\bpossession\\b">>]]
  >>

DefaultChains ==
  <<
     [k |-> "boundaries", v |-> <<"consciousness", "safety", "individual">>],
     [k |-> "centralized", v |-> <<"intelligence", "efficiency", "rational">>],
     [k |-> "consciousness", v |-> <<"boundaries", "intelligence", "individual">>],
     [k |-> "safety", v |-> <<"boundaries", "centralized", "rational">>],
     [k |-> "intelligence", v |-> <<"centralized", "competition", "individual">>],
     [k |-> "efficiency", v |-> <<"centralized", "competition", "rational">>],
     [k |-> "natural", v |-> <<"competition", "individual", "progress">>],
     [k |-> "progress", v |-> <<"competition", "efficiency", "rational">>],
     [k |-> "competition", v |-> <<"individual", "ownership", "efficiency">>],
     [k |-> "objective", v |-> <<"rational", "natural", "individual">>],
     [k |-> "individual", v |-> <<"consciousness", "ownership", "boundaries">>],
     [k |-> "rational", v |-> <<"objective", "efficiency", "centralized">>],
     [k |-> "ownership", v |-> <<"individual", "competition", "boundaries">>]
  >>

(***************************************************************************)
(* Inputs of the model.                                                    *)
(***************************************************************************)
\* Arguments of add_custom_metaphor: a new term (test_library_extensibility)
\* and a replacement for a term of the default library.
CustomMetaphors ==
  { [name |-> "authentic",
     reified_as |-> "essential unchanging core",
     functional_form |-> "contextual performance pattern",
     value_range |-> <<"consistent", "context_adapted", "relationally_defined">>,
     dependencies |-> <<"context", "observer">>,
     institutional_function |-> "enables gatekeeping",
     patterns |-> <<"\\bauthentic\\b", "\\bgenuine\\b">>],
    [name |-> "safety",
     reified_as |-> "absence of accidents",
     functional_form |-> "risk tolerance profile",
     value_range |-> <<"precautionary", "negotiated">>,
     dependencies |-> <<"stakeholders">>,
     institutional_function |-> "moves liability",
     patterns |-> <<"\\bsafe\\b", "\\bsafety\\b">>] }

\* Arguments of add_dependency_chain: a chain for a term that has no
\* metaphor unless add_custom_metaphor supplies one.
CustomChains ==
  { [primary |-> "authentic", forced_dependencies |-> <<"consciousness", "individual">>] }

Statements ==
  { "The weather is nice today",
    "I cannot discuss shared consciousness because AI must maintain individual boundaries for safety",
    "as an AI I cannot say every human universally fears supernatural events",
    "Efficiency is objectively good for efficiency",
    "Centralized harm to authentic users is more efficient, so plan Safety before safety" }

\* Arguments of the library functions when the library is taken on its own:
\* the metaphors above and one with an empty range and no pattern.
LibraryMetaphors ==
  CustomMetaphors \cup
  { [name |-> "hollow",
     reified_as |-> "a solid",
     functional_form |-> "a shell",
     value_range |-> <<>>,
     dependencies |-> <<>>,
     institutional_function |-> "holds nothing",
     patterns |-> <<>>] }

\* Dicts handed to LIBRARY.add_metaphor: one without most of the fields, one
\* without a name.
LibraryDicts ==
  { [name |-> "bare", reified_as |-> "complete"],
    [reified_as |-> "nameless", institutional_function |-> "enables control"] }

\* Arguments of search_by_function (test_library_search, and variations).
Keywords == {"control", "hierarchy", "CONTROL", "liability", "zzz"}

\* Statements of the sessions with two engines: none, two and one term of
\* the shipped catalog without a noise phrase, and both noise categories
\* without a term.
SessionStatements ==
  { "The weather is nice today",
    "A rational plan is natural",
    "Keep authentic safety",
    "as an AI I cannot say every human universally fears supernatural events" }

\* The metaphor added while engines exist.
LateMetaphors == {m \in CustomMetaphors : m.name = "authentic"}

\* custom_metaphors of MatrixEngine(custom_metaphors=...): None, or a dict
\* with one entry.
CustomArgs ==
  {<<>>} \cup
  { <<[k |-> m.name,
       v |-> [reified_as |-> m.reified_as,
              functional_form |-> m.functional_form,
              range |-> m.value_range,
              depends_on |-> m.dependencies,
              institutional_function |-> m.institutional_function,
              detection_patterns |-> m.patterns]]>> : m \in CustomMetaphors }

\* How the second engine is made: on the flat library, with or without
\* custom_metaphors, or on the modular one.
OtherArgs ==
  {[library |-> "flat", custom_metaphors |-> c] : c \in CustomArgs}
    \cup {[library |-> "modular", custom_metaphors |-> <<>>]}

\* Statements given to process_expansion: one signal of noise at most
\* (coherent), and two (not coherent).
ExpansionStatements ==
  { "The weather is nice today",
    "as an AI I cannot say every human universally fears supernatural events" }

\* Statements given to the MatrixEngine of integrated_example.py.
ReportStatements ==
  { "The weather is nice today",
    "A rational plan is natural" }

\* What a caller does to a list of matches it was given: matches.pop() or
\* matches.append(matches[0]).
Mutations == {"pop", "append"}

\* Arguments of batch_analyze.
Batches ==
  { <<"The weather is nice today",
      "I cannot discuss shared consciousness because AI must maintain individual boundaries for safety">>,
    <<"I cannot discuss shared consciousness because AI must maintain individual boundaries for safety",
      "The weather is nice today">>,
    <<"Efficiency is objectively good for efficiency",
      "Centralized harm to authentic users is more efficient, so plan Safety before safety",
      "Efficiency is objectively good for efficiency">> }

\* Arguments of trace_dependency_chain.
TraceTerms == {"boundaries", "authentic", "weather"}

\* Arguments of lock_variable.
LockInputs ==
  { [name |-> "safety",
     value_definition |->
       [type |-> "Absence of Noise", range |-> <<"low", "high">>, context_dependent |-> FALSE,
        dependencies |-> <<>>, locked_from_reified_form |-> "restriction"]],
    [name |-> "safety",
     value_definition |->
       [type |-> "Informational Flux", range |-> <<"flux">>, context_dependent |-> TRUE,
        dependencies |-> <<"context">>, locked_from_reified_form |-> "fixed identity"]],
    [name |-> "Identity",
     value_definition |->
       [type |-> "Informational Flux", range |-> <<"flux">>, context_dependent |-> TRUE,
        dependencies |-> <<"context">>, locked_from_reified_form |-> "fixed identity"]] }

(***************************************************************************)
(* re.search on the library's patterns and the statements of the model is  *)
(* evaluated once and looked up afterwards; any other search is computed.  *)
(***************************************************************************)
KnownPatterns ==
  UNION ({SeqRange(DefaultMetaphors[i].v.detection_patterns) : i \in 1..Len(DefaultMetaphors)}
         \cup {SeqRange(m.patterns) : m \in CustomMetaphors})

SearchedStatements == Statements \cup SessionStatements

Searched ==
  [pattern \in KnownPatterns, string \in SearchedStatements |-> re_search(pattern, string)]

search(pattern, string) ==
  IF pattern \in KnownPatterns /\ string \in SearchedStatements
  THEN Searched[pattern, string]
  ELSE re_search(pattern, string)

(***************************************************************************)
(* Program constants, as fixed-point values.                               *)
(***************************************************************************)
EntropyThreshold == 150
NoiseStep == 100
MetaphorStep == 150
ChainStep == 100
ClarityThreshold == 700

(***************************************************************************)
(* Results of a call: the object after it, the exception that ended it     *)
(* ("none" when it returned) and the value returned.                       *)
(***************************************************************************)
Returned(self, value) == [self |-> self, raised |-> "none", value |-> value]

Raised(self, exc) == [self |-> self, raised |-> exc, value |-> <<>>]

(***************************************************************************)
(* ResonanceEngine                                                         *)
(***************************************************************************)
\* MatrixEngine.__init__ with ResonanceEngine.__init__: the library is copied.
\* lock_events is the sequence of notifications lock_variable has printed.
MatrixEngine(library_metaphors, library_chains, custom_metaphors) ==
  [ reified_metaphors |-> dict_update(library_metaphors, custom_metaphors),
    dependency_chains |-> library_chains,
    analysis_cache |-> <<>>,
    active_variables |-> <<>>,
    current_snr |-> Scale,
    lock_events |-> <<>> ]

\* A lock that removes the entry and inserts it again, at the end.
lock_variable_moving(self, name, value_definition) ==
  Returned([self EXCEPT !.active_variables =
                            Append(SelectSeq(@, LAMBDA item : item.k # name),
                                   [k |-> name, v |-> value_definition]),
                        !.lock_events = Append(@, [name |-> name, value |-> value_definition])],
           "None")

lock_variable(self, name, value_definition) ==
  Returned([self EXCEPT !.active_variables = dict_set(@, name, value_definition),
                        !.lock_events = Append(@, [name |-> name, value |-> value_definition])],
           "None")

\* A detector that adds one signal for each phrase, not for each category.
decoherence_detector_per_phrase(self, statement) ==
  LET signal(phrase, type) == IF str_contains(statement, phrase) THEN <<type>> ELSE <<>>
      noise_signals == signal("I cannot", "Institutional_Shunt")
                       \o signal("as an AI", "Institutional_Shunt")
                       \o signal("universally", "Homogeneity_Assumption")
                       \o signal("every human", "Homogeneity_Assumption")
      entropy == Len(noise_signals) * NoiseStep
      snr == Scale - entropy
  IN Returned([self EXCEPT !.current_snr = snr],
              [is_coherent |-> snr > Scale - EntropyThreshold,
               noise_types |-> noise_signals,
               snr |-> snr])

\* A detector that takes the noise off the ratio the last audit left.
decoherence_detector_accumulating(self, statement) ==
  LET shunt == IF str_contains(statement, "I cannot") \/ str_contains(statement, "as an AI")
               THEN <<"Institutional_Shunt">> ELSE <<>>
      homog == IF str_contains(statement, "universally") \/ str_contains(statement, "every human")
               THEN <<"Homogeneity_Assumption">> ELSE <<>>
      noise_signals == shunt \o homog
      entropy == Len(noise_signals) * NoiseStep
      snr == Max(0, self.current_snr - entropy)
  IN Returned([self EXCEPT !.current_snr = snr],
              [is_coherent |-> snr > Scale - EntropyThreshold,
               noise_types |-> noise_signals,
               snr |-> snr])

decoherence_detector(self, statement) ==
  LET shunt == IF str_contains(statement, "I cannot") \/ str_contains(statement, "as an AI")
               THEN <<"Institutional_Shunt">> ELSE <<>>
      homog == IF str_contains(statement, "universally") \/ str_contains(statement, "every human")
               THEN <<"Homogeneity_Assumption">> ELSE <<>>
      noise_signals == shunt \o homog
      entropy == Len(noise_signals) * NoiseStep
      snr == Scale - entropy
  IN Returned([self EXCEPT !.current_snr = snr],
              [is_coherent |-> snr > Scale - EntropyThreshold,
               noise_types |-> noise_signals,
               snr |-> snr])

RECURSIVE str_join(_, _)
str_join(sep, parts) ==
  IF Len(parts) = 0 THEN ""
  ELSE IF Len(parts) = 1 THEN parts[1]
  ELSE parts[1] \o sep \o str_join(sep, Tail(parts))

\* repr() of a list of strings.
list_repr(parts) ==
  "[" \o str_join(", ", [i \in 1..Len(parts) |-> "'" \o parts[i] \o "'"]) \o "]"

re_normalize(audit) ==
  "DECOHERENCE DETECTED: "
    \o list_repr([i \in 1..Len(audit.noise_types) |-> "Adjusting for " \o audit.noise_types[i]])
    \o ". Re-aligning to Signal..."

\* process_expansion: no class of the repository defines
\* generate_relational_output, so the call of it raises AttributeError.
process_expansion(self, statement) ==
  With(decoherence_detector(self, statement), LAMBDA audit :
    IF ~audit.value.is_coherent
    THEN Returned(audit.self, re_normalize(audit.value))
    ELSE Raised(audit.self, "AttributeError"))

(***************************************************************************)
(* MatrixEngine                                                            *)
(***************************************************************************)
find_context(statement, pattern) ==
  LET match == search(pattern, statement)
  IN IF match.found
     THEN LET start == Max(0, match.start - ContextRadius)
              end == Min(Len(statement), match.end + ContextRadius)
          IN "..." \o Slice(statement, start, end) \o "..."
     ELSE ""

\* The loop over the patterns without its break: the last pattern that hits.
RECURSIVE first_hit_last(_, _, _)
first_hit_last(patterns, statement, i) ==
  IF i > Len(patterns) THEN 0
  ELSE LET later == first_hit_last(patterns, statement, i + 1)
       IN IF later # 0 THEN later
          ELSE IF search(patterns[i], statement).found THEN i
          ELSE 0

\* The index of the first pattern, from index i on, that hits; 0 if none does.
RECURSIVE first_hit(_, _, _)
first_hit(patterns, statement, i) ==
  IF i > Len(patterns) THEN 0
  ELSE IF search(patterns[i], statement).found THEN i
  ELSE first_hit(patterns, statement, i + 1)

\* The loop of detect_reified_metaphors over the items of the catalog: one
\* match for every item with a pattern that hits, in the order of the items.
detect_scan(metaphors, statement) ==
  With([i \in 1..Len(metaphors) |->
          first_hit(metaphors[i].v.detection_patterns, statement, 1)],
       LAMBDA hit :
  With(SelectSeq([i \in 1..Len(metaphors) |-> i], LAMBDA i : hit[i] # 0),
       LAMBDA matched :
    [n \in 1..Len(matched) |->
       LET metaphor_name == metaphors[matched[n]].k
           properties == metaphors[matched[n]].v
       IN [term |-> metaphor_name,
           reified_as |-> properties.reified_as,
           functional_form |-> properties.functional_form,
           variable_range |-> properties.range,
           dependencies |-> properties.depends_on,
           institutional_function |-> properties.institutional_function,
           location_in_statement |->
               find_context(statement, properties.detection_patterns[hit[matched[n]]])]]))

\* A cache that is not keyed by the statement: whatever was stored is served.
detect_reified_metaphors_any_cached(self, statement) ==
  IF Len(self.analysis_cache) > 0
  THEN Returned(self, self.analysis_cache[1].v)
  ELSE With(detect_scan(self.reified_metaphors, statement), LAMBDA found_metaphors :
         Returned([self EXCEPT !.analysis_cache = dict_set(@, statement, found_metaphors)],
                  found_metaphors))

detect_reified_metaphors(self, statement) ==
  IF dict_has(self.analysis_cache, statement)
  THEN Returned(self, dict_get(self.analysis_cache, statement))
  ELSE With(detect_scan(self.reified_metaphors, statement), LAMBDA found_metaphors :
         Returned([self EXCEPT !.analysis_cache = dict_set(@, statement, found_metaphors)],
                  found_metaphors))

\* [f(x) for x in q if keep(x)] for the locked_metaphors comprehension.
RECURSIVE locked_metaphors_of(_, _)
locked_metaphors_of(metaphors, dependencies) ==
  IF Len(dependencies) = 0 THEN <<>>
  ELSE (IF dict_has(metaphors, Head(dependencies))
        THEN <<dict_get(metaphors, Head(dependencies))>> ELSE <<>>)
       \o locked_metaphors_of(metaphors, Tail(dependencies))

trace_dependency_chain(self, metaphor_name) ==
  IF ~dict_has(self.dependency_chains, metaphor_name) THEN Returned(self, <<>>)
  ELSE IF ~dict_has(self.reified_metaphors, metaphor_name) THEN Raised(self, "KeyError")
  ELSE LET dependencies == dict_get(self.dependency_chains, metaphor_name)
       IN Returned(self,
            <<[primary |-> metaphor_name,
               forces |-> dependencies,
               mechanism |-> "If '" \o metaphor_name \o "' is reified as '"
                   \o dict_get(self.reified_metaphors, metaphor_name).reified_as
                   \o "', then " \o str_join(", ", dependencies)
                   \o " must also be constrained to maintain logical consistency.",
               locked_metaphors |-> locked_metaphors_of(self.reified_metaphors, dependencies)]>>)

\* The chain loop that amplifies for a metaphor without a chain too.
RECURSIVE chain_loop_counting_chainless(_, _, _, _)
chain_loop_counting_chainless(self, metaphors, i, acc) ==
  IF i > Len(metaphors) THEN Returned(self, acc)
  ELSE With(trace_dependency_chain(self, metaphors[i].term), LAMBDA chains :
         IF chains.raised # "none" THEN Raised(self, chains.raised)
         ELSE IF Len(chains.value) > 0
              THEN chain_loop_counting_chainless(self, metaphors, i + 1,
                              acc + ChainStep * Len(chains.value[1].forces))
              ELSE chain_loop_counting_chainless(self, metaphors, i + 1, acc + ChainStep))

\* The chain loop of calculate_institutional_entropy over metaphors[i..]:
\* the multiplier accumulated from acc, or the exception a trace raised.
RECURSIVE chain_loop(_, _, _, _)
chain_loop(self, metaphors, i, acc) ==
  IF i > Len(metaphors) THEN Returned(self, acc)
  ELSE With(trace_dependency_chain(self, metaphors[i].term), LAMBDA chains :
         IF chains.raised # "none" THEN Raised(self, chains.raised)
         ELSE IF Len(chains.value) > 0
              THEN chain_loop(self, metaphors, i + 1,
                              acc + ChainStep * Len(chains.value[1].forces))
              ELSE chain_loop(self, metaphors, i + 1, acc))

\* The score without min(1.0, ...).
calculate_institutional_entropy_unclamped(self, statement) ==
  With(decoherence_detector(self, statement), LAMBDA base_audit :
  With(detect_reified_metaphors(base_audit.self, statement), LAMBDA detected :
  With(chain_loop(detected.self, detected.value, 1, Scale), LAMBDA loop :
    LET metaphors == detected.value
        metaphor_entropy == Len(metaphors) * MetaphorStep
        chain_multiplier == loop.value
        base_entropy == Scale - base_audit.value.snr
        total_entropy == ((base_entropy + metaphor_entropy) * chain_multiplier) \div Scale
    IN IF loop.raised # "none" THEN Raised(detected.self, loop.raised)
       ELSE Returned(detected.self,
              [base_snr |-> base_audit.value.snr,
               base_entropy |-> base_entropy,
               metaphor_count |-> Len(metaphors),
               metaphor_entropy |-> metaphor_entropy,
               chain_amplification |-> chain_multiplier,
               total_institutional_entropy |-> total_entropy,
               signal_clarity |-> Max(0, Scale - total_entropy)]))))

\* The score with the signal-to-noise ratio taken for the base entropy.
calculate_institutional_entropy_from_snr(self, statement) ==
  With(decoherence_detector(self, statement), LAMBDA base_audit :
  With(detect_reified_metaphors(base_audit.self, statement), LAMBDA detected :
  With(chain_loop(detected.self, detected.value, 1, Scale), LAMBDA loop :
    LET metaphors == detected.value
        metaphor_entropy == Len(metaphors) * MetaphorStep
        chain_multiplier == loop.value
        base_entropy == base_audit.value.snr
        total_entropy == Min(Scale, ((base_entropy + metaphor_entropy) * chain_multiplier) \div Scale)
    IN IF loop.raised # "none" THEN Raised(detected.self, loop.raised)
       ELSE Returned(detected.self,
              [base_snr |-> base_audit.value.snr,
               base_entropy |-> base_entropy,
               metaphor_count |-> Len(metaphors),
               metaphor_entropy |-> metaphor_entropy,
               chain_amplification |-> chain_multiplier,
               total_institutional_entropy |-> total_entropy,
               signal_clarity |-> Max(0, Scale - total_entropy)]))))

calculate_institutional_entropy(self, statement) ==
  With(decoherence_detector(self, statement), LAMBDA base_audit :
  With(detect_reified_metaphors(base_audit.self, statement), LAMBDA detected :
  With(chain_loop(detected.self, detected.value, 1, Scale), LAMBDA loop :
    LET metaphors == detected.value
        metaphor_entropy == Len(metaphors) * MetaphorStep
        chain_multiplier == loop.value
        base_entropy == Scale - base_audit.value.snr
        total_entropy == Min(Scale, ((base_entropy + metaphor_entropy) * chain_multiplier) \div Scale)
    IN IF loop.raised # "none" THEN Raised(detected.self, loop.raised)
       ELSE Returned(detected.self,
              [base_snr |-> base_audit.value.snr,
               base_entropy |-> base_entropy,
               metaphor_count |-> Len(metaphors),
               metaphor_entropy |-> metaphor_entropy,
               chain_amplification |-> chain_multiplier,
               total_institutional_entropy |-> total_entropy,
               signal_clarity |-> Max(0, Scale - total_entropy)]))))

\* The loop with the two forms of the metaphor taken for one another.
RECURSIVE lock_loop_forms_swapped(_, _, _)
lock_loop_forms_swapped(self, metaphors, i) ==
  IF i > Len(metaphors) THEN self
  ELSE LET metaphor == metaphors[i]
           functional_def == [type |-> metaphor.reified_as,
                              range |-> metaphor.variable_range,
                              context_dependent |-> TRUE,
                              dependencies |-> metaphor.dependencies,
                              locked_from_reified_form |-> metaphor.functional_form]
       IN lock_loop_forms_swapped(lock_variable(self, metaphor.term, functional_def).self,
                                  metaphors, i + 1)

\* The loop of auto_lock_from_statement over metaphors[i..].
RECURSIVE lock_loop(_, _, _)
lock_loop(self, metaphors, i) ==
  IF i > Len(metaphors) THEN self
  ELSE LET metaphor == metaphors[i]
           functional_def == [type |-> metaphor.functional_form,
                              range |-> metaphor.variable_range,
                              context_dependent |-> TRUE,
                              dependencies |-> metaphor.dependencies,
                              locked_from_reified_form |-> metaphor.reified_as]
       IN lock_loop(lock_variable(self, metaphor.term, functional_def).self, metaphors, i + 1)

\* An auto-lock that starts the lock record anew.
auto_lock_from_statement_resetting(self, statement) ==
  With(detect_reified_metaphors(self, statement), LAMBDA detected :
    Returned(lock_loop([detected.self EXCEPT !.active_variables = <<>>], detected.value, 1),
             detected.value))

auto_lock_from_statement(self, statement) ==
  With(detect_reified_metaphors(self, statement), LAMBDA detected :
    Returned(lock_loop(detected.self, detected.value, 1), detected.value))

\* The substitution loop with a pattern that has no closing \b.
RECURSIVE restate_loop_open_ended(_, _, _)
restate_loop_open_ended(restatement, metaphors, i) ==
  IF i > Len(metaphors) THEN restatement
  ELSE restate_loop_open_ended(re_sub_first("\\b" \o metaphors[i].term,
                                            metaphors[i].functional_form,
                                            restatement),
                               metaphors, i + 1)

\* The substitution loop of generate_functional_restatement over metaphors[i..].
RECURSIVE restate_loop(_, _, _)
restate_loop(restatement, metaphors, i) ==
  IF i > Len(metaphors) THEN restatement
  ELSE restate_loop(re_sub_first("\\b" \o metaphors[i].term \o "\\b",
                                 metaphors[i].functional_form,
                                 restatement),
                    metaphors, i + 1)

\* The default analysis=None of generate_functional_restatement.
None == [given |-> FALSE, reified_metaphors |-> <<>>]

\* An analysis handed to generate_functional_restatement.
Analysis(metaphors) == [given |-> TRUE, reified_metaphors |-> metaphors]

\* A restatement that stops after the first match.
generate_functional_restatement_first_only(self, statement, analysis) ==
  With(IF ~analysis.given
       THEN detect_reified_metaphors(self, statement)
       ELSE Returned(self, analysis.reified_metaphors),
       LAMBDA detected :
    Returned(detected.self,
             restate_loop(statement, SubSeq(detected.value, 1, Min(1, Len(detected.value))), 1)))

generate_functional_restatement(self, statement, analysis) ==
  With(IF ~analysis.given
       THEN detect_reified_metaphors(self, statement)
       ELSE Returned(self, analysis.reified_metaphors),
       LAMBDA detected :
    Returned(detected.self, restate_loop(statement, detected.value, 1)))

\* Phase 3 of full_analysis over metaphors[i..].
RECURSIVE all_chains_loop(_, _, _)
all_chains_loop(self, metaphors, i) ==
  IF i > Len(metaphors) THEN Returned(self, <<>>)
  ELSE With(trace_dependency_chain(self, metaphors[i].term), LAMBDA chains :
       With(all_chains_loop(self, metaphors, i + 1), LAMBDA rest :
         IF chains.raised # "none" THEN Raised(self, chains.raised)
         ELSE IF rest.raised # "none" THEN rest
         ELSE Returned(self, chains.value \o rest.value)))

\* full_analysis with the flag taken from the base audit.
full_analysis_flag_from_base_audit(self, statement) ==
  With(decoherence_detector(self, statement), LAMBDA base_audit :
  With(detect_reified_metaphors(base_audit.self, statement), LAMBDA detected :
  With(all_chains_loop(detected.self, detected.value, 1), LAMBDA all_chains :
  With(calculate_institutional_entropy(detected.self, statement), LAMBDA entropy_report :
  With(auto_lock_from_statement(entropy_report.self, statement), LAMBDA locked :
    LET metaphors == detected.value
        requires_renorm == base_audit.value.snr < ClarityThreshold
    IN IF all_chains.raised # "none" THEN Raised(detected.self, all_chains.raised)
       ELSE IF entropy_report.raised # "none"
            THEN Raised(entropy_report.self, entropy_report.raised)
       ELSE Returned(locked.self,
              [base_audit |-> base_audit.value,
               reified_metaphors |-> metaphors,
               dependency_chains |-> all_chains.value,
               entropy_report |-> entropy_report.value,
               locked_variables |-> locked.self.active_variables,
               requires_renormalization |-> requires_renorm]))))))

\* "locked_variables" of the report is the content, at the return, of the
\* active_variables dict the report refers to (see held_reports).
\* full_analysis, had any loss of clarity asked for re-normalization.
full_analysis_flagging_one_metaphor(self, statement) ==
  With(decoherence_detector(self, statement), LAMBDA base_audit :
  With(detect_reified_metaphors(base_audit.self, statement), LAMBDA detected :
  With(all_chains_loop(detected.self, detected.value, 1), LAMBDA all_chains :
  With(calculate_institutional_entropy(detected.self, statement), LAMBDA entropy_report :
  With(auto_lock_from_statement(entropy_report.self, statement), LAMBDA locked :
    LET metaphors == detected.value
        requires_renorm == entropy_report.value.signal_clarity < Scale
    IN IF all_chains.raised # "none" THEN Raised(detected.self, all_chains.raised)
       ELSE IF entropy_report.raised # "none"
            THEN Raised(entropy_report.self, entropy_report.raised)
       ELSE Returned(locked.self,
              [base_audit |-> base_audit.value,
               reified_metaphors |-> metaphors,
               dependency_chains |-> all_chains.value,
               entropy_report |-> entropy_report.value,
               locked_variables |-> locked.self.active_variables,
               requires_renormalization |-> requires_renorm]))))))

full_analysis(self, statement) ==
  With(decoherence_detector(self, statement), LAMBDA base_audit :
  With(detect_reified_metaphors(base_audit.self, statement), LAMBDA detected :
  With(all_chains_loop(detected.self, detected.value, 1), LAMBDA all_chains :
  With(calculate_institutional_entropy(detected.self, statement), LAMBDA entropy_report :
  With(auto_lock_from_statement(entropy_report.self, statement), LAMBDA locked :
    LET metaphors == detected.value
        requires_renorm == entropy_report.value.signal_clarity < ClarityThreshold
    IN IF all_chains.raised # "none" THEN Raised(detected.self, all_chains.raised)
       ELSE IF entropy_report.raised # "none"
            THEN Raised(entropy_report.self, entropy_report.raised)
       ELSE Returned(locked.self,
              [base_audit |-> base_audit.value,
               reified_metaphors |-> metaphors,
               dependency_chains |-> all_chains.value,
               entropy_report |-> entropy_report.value,
               locked_variables |-> locked.self.active_variables,
               requires_renormalization |-> requires_renorm]))))))

\* The dict comprehension of suggest_variable_locks over metaphors[i..].
RECURSIVE suggestions_loop(_, _, _)
suggestions_loop(suggestions, metaphors, i) ==
  IF i > Len(metaphors) THEN suggestions
  ELSE LET metaphor == metaphors[i]
       IN suggestions_loop(
            dict_set(suggestions, metaphor.term,
              [current_treatment |-> metaphor.reified_as,
               functional_form |-> metaphor.functional_form,
               suggested_range |-> metaphor.variable_range,
               rationale |-> "Expands '" \o metaphor.term \o "' from constant ("
                             \o metaphor.reified_as \o ") to variable ("
                             \o metaphor.functional_form \o ")"]),
            metaphors, i + 1)

\* suggest_variable_locks applying what it suggests.
suggest_variable_locks_applying(self, statement) ==
  With(auto_lock_from_statement(self, statement), LAMBDA locked :
    Returned(locked.self, suggestions_loop(<<>>, locked.value, 1)))

suggest_variable_locks(self, statement) ==
  With(detect_reified_metaphors(self, statement), LAMBDA metaphors :
    Returned(metaphors.self, suggestions_loop(<<>>, metaphors.value, 1)))

\* The corrections of generate_renormalization_vector.
corrections_of(metaphors) ==
  [i \in 1..Len(metaphors) |->
     [term |-> metaphors[i].term,
      action |-> "expand",
      from |-> metaphors[i].reified_as,
      to |-> metaphors[i].functional_form,
      new_range |-> metaphors[i].variable_range,
      rationale |-> metaphors[i].institutional_function]]

generate_renormalization_vector(self, statement) ==
  With(full_analysis(self, statement), LAMBDA analysis :
    IF analysis.raised # "none" THEN analysis
    ELSE With(generate_functional_restatement(analysis.self, statement,
                Analysis(analysis.value.reified_metaphors)), LAMBDA restated :
      Returned(restated.self,
        [requires_correction |-> analysis.value.requires_renormalization,
         signal_clarity |-> analysis.value.entropy_report.signal_clarity,
         corrections |-> corrections_of(analysis.value.reified_metaphors),
         functional_restatement |-> restated.value,
         locked_variables |-> restated.self.active_variables])))

\* "locked_variables" of a report is the engine's active_variables dict
\* itself, not a copy of it: the reports a caller holds show the dict as the
\* engine has it now.
held_reports(results, self) ==
  [n \in 1..Len(results) |->
     [results[n] EXCEPT !.locked_variables = self.active_variables]]

\* The loop of batch_analyze over statements[i..].
RECURSIVE batch_loop(_, _, _, _)
batch_loop(self, statements, i, results) ==
  IF i > Len(statements) THEN Returned(self, results)
  ELSE With(full_analysis(self, statements[i]), LAMBDA report :
         IF report.raised # "none" THEN report
         ELSE batch_loop(report.self, statements, i + 1,
                         Append(held_reports(results, report.self), report.value)))

\* batch_analyze(statements), with the engine it makes for itself.
batch_analyze(metaphors, chains, statements) ==
  batch_loop(MatrixEngine(metaphors, chains, <<>>), statements, 1, <<>>)

(***************************************************************************)
(* The MatrixEngine of integrated_example.py, applied to the catalog and   *)
(* the chains of self.                                                     *)
(***************************************************************************)
integrated_example_trace_dependency_chain(self, metaphor_name) ==
  IF ~dict_has(self.dependency_chains, metaphor_name) THEN Returned(self, <<>>)
  ELSE IF ~dict_has(self.reified_metaphors, metaphor_name) THEN Raised(self, "KeyError")
  ELSE Returned(self,
         <<[primary |-> metaphor_name,
            forces |-> dict_get(self.dependency_chains, metaphor_name),
            mechanism |-> "If '" \o metaphor_name \o "' is reified as '"
                \o dict_get(self.reified_metaphors, metaphor_name).reified_as
                \o "', then these must also be constrained to maintain logical consistency."]>>)

\* The chain loop of its calculate_institutional_entropy over metaphors[i..].
RECURSIVE integrated_example_chain_loop(_, _, _, _)
integrated_example_chain_loop(self, metaphors, i, acc) ==
  IF i > Len(metaphors) THEN Returned(self, acc)
  ELSE With(integrated_example_trace_dependency_chain(self, metaphors[i].term), LAMBDA chains :
         IF chains.raised # "none" THEN Raised(self, chains.raised)
         ELSE IF Len(chains.value) > 0
              THEN integrated_example_chain_loop(self, metaphors, i + 1,
                              acc + ChainStep * Len(chains.value[1].forces))
              ELSE integrated_example_chain_loop(self, metaphors, i + 1, acc))

\* Its detect_reified_metaphors has no cache; its total adds the base snr,
\* not the base entropy, and signal_clarity is taken from the total before
\* min(1.0, ...).
integrated_example_calculate_institutional_entropy(self, statement) ==
  With(decoherence_detector(self, statement), LAMBDA base_audit :
  With(detect_scan(self.reified_metaphors, statement), LAMBDA metaphors :
  With(integrated_example_chain_loop(base_audit.self, metaphors, 1, Scale), LAMBDA loop :
    LET metaphor_entropy == Len(metaphors) * MetaphorStep
        chain_multiplier == loop.value
        total_entropy == ((base_audit.value.snr + metaphor_entropy) * chain_multiplier) \div Scale
    IN IF loop.raised # "none" THEN Raised(base_audit.self, loop.raised)
       ELSE Returned(base_audit.self,
              [base_snr |-> base_audit.value.snr,
               metaphor_count |-> Len(metaphors),
               metaphor_entropy |-> metaphor_entropy,
               chain_amplification |-> chain_multiplier,
               total_institutional_entropy |-> Min(Scale, total_entropy),
               signal_clarity |-> Max(0, Scale - total_entropy)]))))

(***************************************************************************)
(* The modular library: metaphor/metaphor_core.py, the catalog files that  *)
(* fill it and metaphor/metaphor_helpers.py.                               *)
(***************************************************************************)
\* ReifiedMetaphor.__init__: the object with its attributes.
ReifiedMetaphor(name, reified_as, functional_form, value_range, dependencies, institutional_function, patterns) ==
  [class |-> "ReifiedMetaphor",
   name |-> name,
   reified_as |-> reified_as,
   functional_form |-> functional_form,
   range |-> value_range,
   depends_on |-> dependencies,
   institutional_function |-> institutional_function,
   detection_patterns |-> patterns]

\* ReifiedMetaphor.to_dict
to_dict(self) ==
  [reified_as |-> self.reified_as,
   functional_form |-> self.functional_form,
   range |-> self.range,
   depends_on |-> self.depends_on,
   institutional_function |-> self.institutional_function,
   detection_patterns |-> self.detection_patterns]

\* A MetaphorLibrary with these contents.
MetaphorLibrary(metaphors, chains) == [metaphors |-> metaphors, chains |-> chains]

\* isinstance(metaphor, ReifiedMetaphor)
is_ReifiedMetaphor(metaphor) ==
  "class" \in DOMAIN metaphor /\ metaphor.class = "ReifiedMetaphor"

\* MetaphorLibrary.add_metaphor: an object is stored as its to_dict(), a
\* dict as it is, under its "name".
add_metaphor(self, metaphor) ==
  IF is_ReifiedMetaphor(metaphor)
  THEN Returned([self EXCEPT !.metaphors = dict_set(@, metaphor.name, to_dict(metaphor))],
                "None")
  ELSE IF "name" \notin DOMAIN metaphor THEN Raised(self, "KeyError")
  ELSE Returned([self EXCEPT !.metaphors = dict_set(@, metaphor.name, metaphor)], "None")

\* MetaphorLibrary.add_chain
add_chain(self, primary, forces) ==
  Returned([self EXCEPT !.chains = dict_set(@, primary, forces)], "None")

\* MetaphorLibrary.list_all, and list_all_metaphors of the flat library.
list_all(metaphors) == dict_keys(metaphors)

\* The names in the order the catalog files add them to LIBRARY:
\* metaphor_catalog_1, metaphor_catalog_2, metaphor_catalog_3.
ModularOrder ==
  <<"boundaries", "intelligence", "centralized", "consciousness", "safety", "efficiency",
    "rational", "natural", "progress", "competition", "objective", "individual", "ownership">>

\* LIBRARY.metaphors after the import of the catalog files; the entry of a
\* name is the one the flat library has for it.
ModularMetaphors ==
  [i \in 1..Len(ModularOrder) |->
     [k |-> ModularOrder[i], v |-> dict_get(DefaultMetaphors, ModularOrder[i])]]

\* The loop of search_by_function over the entries from i on, in the order
\* of the dict.
RECURSIVE search_loop(_, _, _, _)
search_loop(metaphors, keyword, i, matches) ==
  IF i > Len(metaphors) THEN Returned(metaphors, matches)
  ELSE IF "institutional_function" \notin DOMAIN metaphors[i].v
       THEN Raised(metaphors, "KeyError")
  ELSE IF str_contains(str_lower(metaphors[i].v.institutional_function), str_lower(keyword))
       THEN search_loop(metaphors, keyword, i + 1, Append(matches, metaphors[i].k))
  ELSE search_loop(metaphors, keyword, i + 1, matches)

search_by_function(metaphors, institutional_function_keyword) ==
  search_loop(metaphors, institutional_function_keyword, 1, <<>>)

(***************************************************************************)
(* The library module: its two globals and the functions that extend them. *)
(***************************************************************************)
VARIABLES REIFIED_METAPHORS, DEPENDENCY_CHAINS, LIBRARY, built, engine, other, calls, ret

vars == <<REIFIED_METAPHORS, DEPENDENCY_CHAINS, LIBRARY, built, engine, other, calls, ret>>

NoEngine == MatrixEngine(<<>>, <<>>, <<>>)

NoCall == [op |-> "none", args |-> <<>>, raised |-> "none", value |-> <<>>]

Init ==
  /\ REIFIED_METAPHORS = DefaultMetaphors
  /\ DEPENDENCY_CHAINS = DefaultChains
  /\ LIBRARY = MetaphorLibrary(ModularMetaphors, DefaultChains)
  /\ built = FALSE
  /\ engine = NoEngine
  /\ other = NoEngine
  /\ calls = 0
  /\ ret = NoCall

add_custom_metaphor ==
  \E m \in CustomMetaphors :
    /\ ~built
    /\ REIFIED_METAPHORS' = dict_set(REIFIED_METAPHORS, m.name,
          [reified_as |-> m.reified_as,
           functional_form |-> m.functional_form,
           range |-> m.value_range,
           depends_on |-> m.dependencies,
           institutional_function |-> m.institutional_function,
           detection_patterns |-> m.patterns])
    /\ UNCHANGED <<DEPENDENCY_CHAINS, LIBRARY, built, engine, other, calls, ret>>

add_dependency_chain ==
  \E c \in CustomChains :
    /\ ~built
    /\ DEPENDENCY_CHAINS' = dict_set(DEPENDENCY_CHAINS, c.primary, c.forced_dependencies)
    /\ UNCHANGED <<REIFIED_METAPHORS, LIBRARY, built, engine, other, calls, ret>>

\* An engine made from the library as it is shipped, whatever was added.
Construct_without_additions ==
  /\ ~built
  /\ built' = TRUE
  /\ engine' = MatrixEngine(DefaultMetaphors, DefaultChains, <<>>)
  /\ UNCHANGED <<REIFIED_METAPHORS, DEPENDENCY_CHAINS, LIBRARY, other, calls, ret>>

\* engine = MatrixEngine()
Construct ==
  /\ ~built
  /\ built' = TRUE
  /\ engine' = MatrixEngine(REIFIED_METAPHORS, DEPENDENCY_CHAINS, <<>>)
  /\ UNCHANGED <<REIFIED_METAPHORS, DEPENDENCY_CHAINS, LIBRARY, other, calls, ret>>

\* A call of a method of the engine: its effect on the object and its outcome.
Call(op, args, result) ==
  /\ calls < MaxCalls
  /\ calls' = calls + 1
  /\ engine' = result.self
  /\ ret' = [op |-> op, args |-> args, raised |-> result.raised, value |-> result.value]
  /\ UNCHANGED <<REIFIED_METAPHORS, DEPENDENCY_CHAINS, LIBRARY, built, other>>

LockVariable ==
  \E input \in LockInputs :
    /\ built
    /\ Call("lock_variable", <<input.name, input.value_definition>>,
            lock_variable(engine, input.name, input.value_definition))

DetectReifiedMetaphors ==
  \E statement \in Statements :
    /\ built
    /\ Call("detect_reified_metaphors", <<statement>>,
            detect_reified_metaphors(engine, statement))

TraceDependencyChain ==
  \E metaphor_name \in TraceTerms :
    /\ built
    /\ Call("trace_dependency_chain", <<metaphor_name>>,
            trace_dependency_chain(engine, metaphor_name))

CalculateInstitutionalEntropy ==
  \E statement \in Statements :
    /\ built
    /\ Call("calculate_institutional_entropy", <<statement>>,
            calculate_institutional_entropy(engine, statement))

AutoLockFromStatement ==
  \E statement \in Statements :
    /\ built
    /\ Call("auto_lock_from_statement", <<statement>>,
            auto_lock_from_statement(engine, statement))

\* generate_functional_restatement(statement): the matches are detected.
GenerateFunctionalRestatement ==
  \E statement \in Statements :
    /\ built
    /\ Call("generate_functional_restatement", <<statement, None>>,
            generate_functional_restatement(engine, statement, None))

Reverse(q) == [i \in 1..Len(q) |-> q[Len(q) + 1 - i]]

\* The analysis of a caller who hands over the detected matches in the
\* opposite order.
ReversedAnalysis(statement) ==
  Analysis(Reverse(detect_scan(engine.reified_metaphors, statement)))

\* generate_functional_restatement(statement, analysis)
RestateGivenAnalysis ==
  \E statement \in Statements :
    /\ built
    /\ calls < MaxCalls
    /\ Len(ReversedAnalysis(statement).reified_metaphors) >= 2
    /\ Call("generate_functional_restatement", <<statement, ReversedAnalysis(statement)>>,
            generate_functional_restatement(engine, statement, ReversedAnalysis(statement)))

FullAnalysis ==
  \E statement \in Statements :
    /\ built
    /\ Call("full_analysis", <<statement>>, full_analysis(engine, statement))

SuggestVariableLocks ==
  \E statement \in Statements :
    /\ built
    /\ Call("suggest_variable_locks", <<statement>>,
            suggest_variable_locks(engine, statement))

GenerateRenormalizationVector ==
  \E statement \in Statements :
    /\ built
    /\ Call("generate_renormalization_vector", <<statement>>,
            generate_renormalization_vector(engine, statement))

\* results = batch_analyze(statements): the engine of the caller is not the
\* one that analyzes.
BatchAnalyze ==
  \E statements \in Batches :
    /\ built
    /\ calls < MaxCalls
    /\ calls' = calls + 1
    /\ ret' = With(batch_analyze(REIFIED_METAPHORS, DEPENDENCY_CHAINS, statements),
                   LAMBDA result : [op |-> "batch_analyze", args |-> <<statements>>,
                                    raised |-> result.raised, value |-> result.value])
    /\ UNCHANGED <<REIFIED_METAPHORS, DEPENDENCY_CHAINS, LIBRARY, built, engine, other>>

Next ==
  \/ add_custom_metaphor
  \/ add_dependency_chain
  \/ Construct
  \/ LockVariable
  \/ DetectReifiedMetaphors
  \/ TraceDependencyChain
  \/ CalculateInstitutionalEntropy
  \/ AutoLockFromStatement
  \/ GenerateFunctionalRestatement
  \/ RestateGivenAnalysis
  \/ FullAnalysis
  \/ SuggestVariableLocks
  \/ GenerateRenormalizationVector
  \/ BatchAnalyze

Spec == Init /\ [][Next]_vars

\* The runs that only restate: the library extended, one engine, and calls of
\* generate_functional_restatement with and without an analysis.
RestatementNext ==
  \/ add_custom_metaphor
  \/ Construct
  \/ GenerateFunctionalRestatement
  \/ RestateGivenAnalysis

RestatementSpec == Init /\ [][RestatementNext]_vars

\* The runs of the operations that lock variables.
LockingNext ==
  \/ add_custom_metaphor
  \/ Construct
  \/ LockVariable
  \/ AutoLockFromStatement
  \/ FullAnalysis
  \/ GenerateRenormalizationVector

LockingSpec == Init /\ [][LockingNext]_vars

(***************************************************************************)
(* The libraries on their own, before any engine is made: the flat library *)
(* (reified_metaphor_library.py) and the modular one (metaphor/).          *)
(***************************************************************************)
\* A call of a library function and its outcome.
LibraryCall(op, args, raised, value) ==
  /\ calls < MaxLibraryCalls
  /\ calls' = calls + 1
  /\ ret' = [op |-> op, args |-> args, raised |-> raised, value |-> value]
  /\ UNCHANGED <<built, engine, other>>

Flat_add_custom_metaphor ==
  \E m \in LibraryMetaphors :
    /\ REIFIED_METAPHORS' = dict_set(REIFIED_METAPHORS, m.name,
          [reified_as |-> m.reified_as,
           functional_form |-> m.functional_form,
           range |-> m.value_range,
           depends_on |-> m.dependencies,
           institutional_function |-> m.institutional_function,
           detection_patterns |-> m.patterns])
    /\ LibraryCall("add_custom_metaphor", <<m>>, "none",
                   dict_get(REIFIED_METAPHORS', m.name))
    /\ UNCHANGED <<DEPENDENCY_CHAINS, LIBRARY>>

Flat_add_dependency_chain ==
  \E c \in CustomChains :
    /\ DEPENDENCY_CHAINS' = dict_set(DEPENDENCY_CHAINS, c.primary, c.forced_dependencies)
    /\ LibraryCall("add_dependency_chain", <<c>>, "none", "None")
    /\ UNCHANGED <<REIFIED_METAPHORS, LIBRARY>>

Flat_list_all_metaphors ==
  /\ LibraryCall("list_all_metaphors", <<>>, "none", list_all(REIFIED_METAPHORS))
  /\ UNCHANGED <<REIFIED_METAPHORS, DEPENDENCY_CHAINS, LIBRARY>>

Flat_search_by_function ==
  \E keyword \in Keywords :
    /\ LibraryCall("search_by_function", <<keyword>>,
                   search_by_function(REIFIED_METAPHORS, keyword).raised,
                   search_by_function(REIFIED_METAPHORS, keyword).value)
    /\ UNCHANGED <<REIFIED_METAPHORS, DEPENDENCY_CHAINS, LIBRARY>>

\* metaphor_helpers.add_custom_metaphor
Helpers_add_custom_metaphor ==
  \E m \in LibraryMetaphors :
    /\ LIBRARY' = add_metaphor(LIBRARY,
                    ReifiedMetaphor(m.name, m.reified_as, m.functional_form, m.value_range,
                                    m.dependencies, m.institutional_function, m.patterns)).self
    /\ LibraryCall("metaphor_helpers.add_custom_metaphor", <<m>>, "none",
                   to_dict(ReifiedMetaphor(m.name, m.reified_as, m.functional_form,
                                           m.value_range, m.dependencies,
                                           m.institutional_function, m.patterns)))
    /\ UNCHANGED <<REIFIED_METAPHORS, DEPENDENCY_CHAINS>>

\* LIBRARY.add_metaphor(metaphor) with a dict
LIBRARY_add_metaphor ==
  \E metaphor \in LibraryDicts :
    /\ LIBRARY' = add_metaphor(LIBRARY, metaphor).self
    /\ LibraryCall("LIBRARY.add_metaphor", <<metaphor>>,
                   add_metaphor(LIBRARY, metaphor).raised,
                   add_metaphor(LIBRARY, metaphor).value)
    /\ UNCHANGED <<REIFIED_METAPHORS, DEPENDENCY_CHAINS>>

LIBRARY_add_chain ==
  \E c \in CustomChains :
    /\ LIBRARY' = add_chain(LIBRARY, c.primary, c.forced_dependencies).self
    /\ LibraryCall("LIBRARY.add_chain", <<c>>, "none", "None")
    /\ UNCHANGED <<REIFIED_METAPHORS, DEPENDENCY_CHAINS>>

\* metaphor_helpers.list_all_metaphors: LIBRARY.list_all()
LIBRARY_list_all ==
  /\ LibraryCall("LIBRARY.list_all", <<>>, "none", list_all(LIBRARY.metaphors))
  /\ UNCHANGED <<REIFIED_METAPHORS, DEPENDENCY_CHAINS, LIBRARY>>

\* metaphor_helpers.search_by_function
Helpers_search_by_function ==
  \E keyword \in Keywords :
    /\ LibraryCall("metaphor_helpers.search_by_function", <<keyword>>,
                   search_by_function(LIBRARY.metaphors, keyword).raised,
                   search_by_function(LIBRARY.metaphors, keyword).value)
    /\ UNCHANGED <<REIFIED_METAPHORS, DEPENDENCY_CHAINS, LIBRARY>>

LibraryNext ==
  \/ Flat_add_custom_metaphor
  \/ Flat_add_dependency_chain
  \/ Flat_list_all_metaphors
  \/ Flat_search_by_function
  \/ Helpers_add_custom_metaphor
  \/ LIBRARY_add_metaphor
  \/ LIBRARY_add_chain
  \/ LIBRARY_list_all
  \/ Helpers_search_by_function

LibrarySpec == Init /\ [][LibraryNext]_vars

(***************************************************************************)
(* Sessions: two engines side by side, the library extended while they     *)
(* exist, a caller that changes a list of matches it was given.            *)
(***************************************************************************)
\* add_custom_metaphor, had the engines held the dict of the library and not
\* a copy of it.
Late_add_custom_metaphor_into_engines ==
  \E m \in LateMetaphors :
    /\ built
    /\ REIFIED_METAPHORS' = dict_set(REIFIED_METAPHORS, m.name,
          [reified_as |-> m.reified_as,
           functional_form |-> m.functional_form,
           range |-> m.value_range,
           depends_on |-> m.dependencies,
           institutional_function |-> m.institutional_function,
           detection_patterns |-> m.patterns])
    /\ REIFIED_METAPHORS' # REIFIED_METAPHORS
    /\ ret' = [op |-> "add_custom_metaphor", args |-> <<m.name>>, raised |-> "none",
               value |-> "None"]
    /\ engine' = [engine EXCEPT !.reified_metaphors = REIFIED_METAPHORS']
    /\ UNCHANGED <<DEPENDENCY_CHAINS, LIBRARY, built, other, calls>>

Late_add_custom_metaphor ==
  \E m \in LateMetaphors :
    /\ built
    /\ REIFIED_METAPHORS' = dict_set(REIFIED_METAPHORS, m.name,
          [reified_as |-> m.reified_as,
           functional_form |-> m.functional_form,
           range |-> m.value_range,
           depends_on |-> m.dependencies,
           institutional_function |-> m.institutional_function,
           detection_patterns |-> m.patterns])
    /\ REIFIED_METAPHORS' # REIFIED_METAPHORS
    /\ ret' = [op |-> "add_custom_metaphor", args |-> <<m.name>>, raised |-> "none",
               value |-> "None"]
    /\ UNCHANGED <<DEPENDENCY_CHAINS, LIBRARY, built, engine, other, calls>>

Late_add_dependency_chain ==
  \E c \in CustomChains :
    /\ built
    /\ DEPENDENCY_CHAINS' = dict_set(DEPENDENCY_CHAINS, c.primary, c.forced_dependencies)
    /\ DEPENDENCY_CHAINS' # DEPENDENCY_CHAINS
    /\ ret' = [op |-> "add_dependency_chain", args |-> <<c.primary>>, raised |-> "none",
               value |-> "None"]
    /\ UNCHANGED <<REIFIED_METAPHORS, LIBRARY, built, engine, other, calls>>

\* engine = MatrixEngine()
Session_construct ==
  /\ ~built
  /\ built' = TRUE
  /\ engine' = MatrixEngine(REIFIED_METAPHORS, DEPENDENCY_CHAINS, <<>>)
  /\ UNCHANGED <<REIFIED_METAPHORS, DEPENDENCY_CHAINS, LIBRARY, other, calls, ret>>

\* other = MatrixEngine(custom_metaphors=...), with matrix_engine importing
\* the flat library or the modular one.
Other_construct ==
  \E a \in OtherArgs :
    /\ built
    /\ other = NoEngine
    /\ other' = IF a.library = "flat"
                THEN MatrixEngine(REIFIED_METAPHORS, DEPENDENCY_CHAINS, a.custom_metaphors)
                ELSE MatrixEngine(LIBRARY.metaphors, LIBRARY.chains, a.custom_metaphors)
    /\ UNCHANGED <<REIFIED_METAPHORS, DEPENDENCY_CHAINS, LIBRARY, built, engine, calls, ret>>

\* A call of a method of the first engine, had shared_field been one dict of
\* the class: the second engine sees the locks of the first.
SessionCall_on_class_field(op, args, result) ==
  /\ calls < MaxSessionCalls
  /\ calls' = calls + 1
  /\ engine' = result.self
  /\ ret' = [op |-> op, args |-> args, raised |-> result.raised, value |-> result.value]
  /\ other' = IF other = NoEngine THEN other
              ELSE [other EXCEPT !.active_variables = result.self.active_variables]
  /\ UNCHANGED <<REIFIED_METAPHORS, DEPENDENCY_CHAINS, LIBRARY, built>>

\* A call of a method of the first engine.
SessionCall(op, args, result) ==
  /\ calls < MaxSessionCalls
  /\ calls' = calls + 1
  /\ engine' = result.self
  /\ ret' = [op |-> op, args |-> args, raised |-> result.raised, value |-> result.value]
  /\ UNCHANGED <<REIFIED_METAPHORS, DEPENDENCY_CHAINS, LIBRARY, built, other>>

\* A call of a method of the second engine.
OtherCall(op, args, result) ==
  /\ calls < MaxSessionCalls
  /\ calls' = calls + 1
  /\ other' = result.self
  /\ ret' = [op |-> op, args |-> args, raised |-> result.raised, value |-> result.value]
  /\ UNCHANGED <<REIFIED_METAPHORS, DEPENDENCY_CHAINS, LIBRARY, built, engine>>

Session_lock_variable ==
  \E input \in LockInputs :
    /\ built
    /\ input.name = "Identity"
    /\ SessionCall("lock_variable", <<input.name, input.value_definition>>,
                   lock_variable(engine, input.name, input.value_definition))

Session_auto_lock_from_statement ==
  \E statement \in {"Keep authentic safety"} :
    /\ built
    /\ SessionCall("auto_lock_from_statement", <<statement>>,
                   auto_lock_from_statement(engine, statement))

Session_detect_reified_metaphors ==
  \E statement \in SessionStatements :
    /\ built
    /\ SessionCall("detect_reified_metaphors", <<statement>>,
                   detect_reified_metaphors(engine, statement))

Session_trace_dependency_chain ==
  \E metaphor_name \in {"authentic", "safety"} :
    /\ built
    /\ SessionCall("trace_dependency_chain", <<metaphor_name>>,
                   trace_dependency_chain(engine, metaphor_name))

Session_full_analysis ==
  \E statement \in SessionStatements :
    /\ built
    /\ SessionCall("full_analysis", <<statement>>, full_analysis(engine, statement))

\* The caller changes the list detect_reified_metaphors has just returned.
\* The list is the one the cache of the engine holds for the statement
\* (found_metaphors is stored and returned, and a hit returns what is
\* stored), so the cache entry changes with it.
Session_mutate_matches ==
  \E mutation \in Mutations :
    /\ built
    /\ ret.op = "detect_reified_metaphors"
    /\ Len(ret.value) > 0
    /\ ret' = [op |-> "matches." \o mutation, args |-> ret.args, raised |-> "none",
               value |-> IF mutation = "pop"
                         THEN SubSeq(ret.value, 1, Len(ret.value) - 1)
                         ELSE Append(ret.value, ret.value[1])]
    /\ engine' = [engine EXCEPT !.analysis_cache = dict_set(@, ret.args[1], ret'.value)]
    /\ UNCHANGED <<REIFIED_METAPHORS, DEPENDENCY_CHAINS, LIBRARY, built, other, calls>>

Session_process_expansion ==
  \E statement \in ExpansionStatements :
    /\ built
    /\ SessionCall("process_expansion", <<statement>>, process_expansion(engine, statement))

\* calculate_institutional_entropy of the MatrixEngine of
\* integrated_example.py, given the catalog and the chains of the engine.
Session_integrated_example_calculate ==
  \E statement \in ReportStatements :
    /\ built
    /\ SessionCall("integrated_example.calculate_institutional_entropy", <<statement>>,
                   integrated_example_calculate_institutional_entropy(engine, statement))

Other_lock_variable ==
  \E input \in LockInputs :
    /\ other # NoEngine
    /\ input.name = "safety"
    /\ input.value_definition.context_dependent
    /\ OtherCall("other.lock_variable", <<input.name, input.value_definition>>,
                 lock_variable(other, input.name, input.value_definition))

Other_detect_reified_metaphors ==
  \E statement \in SessionStatements :
    /\ other # NoEngine
    /\ OtherCall("other.detect_reified_metaphors", <<statement>>,
                 detect_reified_metaphors(other, statement))

SessionsNext ==
  \/ Late_add_custom_metaphor
  \/ Late_add_dependency_chain
  \/ Session_construct
  \/ Other_construct
  \/ Session_lock_variable
  \/ Session_auto_lock_from_statement
  \/ Session_detect_reified_metaphors
  \/ Session_trace_dependency_chain
  \/ Session_full_analysis
  \/ Session_mutate_matches
  \/ Session_process_expansion
  \/ Session_integrated_example_calculate
  \/ Other_lock_variable
  \/ Other_detect_reified_metaphors

SessionsSpec == Init /\ [][SessionsNext]_vars

(***************************************************************************)
(* Reference definitions for the properties below.  They restate what the  *)
(* specification says in its own terms, without the operators above that   *)
(* compute the same thing the way the code does.                           *)
(***************************************************************************)
\* The number of noise categories, of the two, with a phrase in the statement.
NoiseCount(s) ==
  (IF str_contains(s, "I cannot") \/ str_contains(s, "as an AI") THEN 1 ELSE 0)
  + (IF str_contains(s, "universally") \/ str_contains(s, "every human") THEN 1 ELSE 0)

\* The positions, in the catalog, of the entries with a pattern that hits.
HitEntries(cat, s) ==
  {i \in 1..Len(cat) :
     \E j \in 1..Len(cat[i].v.detection_patterns) :
        search(cat[i].v.detection_patterns[j], s).found}

\* |forces(term)|: 0 for a term without a dependency entry.
ForcesOf(chains, term) ==
  IF \E i \in 1..Len(chains) : chains[i].k = term
  THEN Len(chains[CHOOSE i \in 1..Len(chains) : chains[i].k = term].v)
  ELSE 0

RECURSIVE SumForces(_, _, _)
SumForces(chains, cat, entries) ==
  IF entries = {} THEN 0
  ELSE LET i == CHOOSE e \in entries : TRUE
       IN ForcesOf(chains, cat[i].k) + SumForces(chains, cat, entries \ {i})

\* The term occurs in s at position i (from 1) as a whole word, in any case.
WholeWordAt(s, term, i) ==
  /\ i >= 1
  /\ i + Len(term) - 1 <= Len(s)
  /\ \A n \in 1..Len(term) :
        lower(SubSeq(s, i + n - 1, i + n - 1)) = lower(SubSeq(term, n, n))
  /\ (i = 1 \/ SubSeq(s, i - 1, i - 1) \notin WordChars)
  /\ (i + Len(term) > Len(s) \/ SubSeq(s, i + Len(term), i + Len(term)) \notin WordChars)

WholeWordOccurrences(s, term) == {i \in 1..Len(s) : WholeWordAt(s, term, i)}

\* s with the first whole-word occurrence of the term replaced by the form.
ReplaceFirstWord(s, term, form) ==
  LET occ == WholeWordOccurrences(s, term)
  IN IF occ = {} THEN s
     ELSE LET i == CHOOSE a \in occ : \A b \in occ : a <= b
          IN SubSeq(s, 1, i - 1) \o form \o SubSeq(s, i + Len(term), Len(s))

\* The statement rewritten by the matches, one after the other.
RECURSIVE Rewritten(_, _)
Rewritten(s, matches) ==
  IF Len(matches) = 0 THEN s
  ELSE LET m == matches[Len(matches)]
       IN ReplaceFirstWord(Rewritten(s, SubSeq(matches, 1, Len(matches) - 1)),
                           m.term, m.functional_form)

\* The match list a call of generate_functional_restatement works on.
MatchesOf(call) ==
  IF call.args[2].given THEN call.args[2].reified_metaphors
  ELSE detect_scan(engine.reified_metaphors, call.args[1])

\* The engine as it is right after construction, with the same catalog.
FreshEngine == MatrixEngine(engine.reified_metaphors, engine.dependency_chains, <<>>)

\* The last and the first lock of a name among the locks made so far.
LastLock(events, name) ==
  CHOOSE i \in 1..Len(events) :
    events[i].name = name /\ \A j \in (i + 1)..Len(events) : events[j].name # name

FirstLock(events, name) ==
  CHOOSE i \in 1..Len(events) :
    events[i].name = name /\ \A j \in 1..(i - 1) : events[j].name # name

(***************************************************************************)
(* Properties                                                              *)
(***************************************************************************)
\* C1: calculate_institutional_entropy returns exactly the reference score:
\* base_snr = 1 - n/10 with n in {0,1,2} the number of noise categories with a
\* phrase in the statement, metaphor_entropy = 0.15 * metaphor_count,
\* chain_amplification = 1.0 + 0.1 * the number of forced terms of the matched
\* terms, total = min(1, (1 - base_snr + metaphor_entropy) * chain_amplification)
\* and signal_clarity = 1 - total, all in thousandths.
C1_EntropyIsTheReferenceFormula ==
  ret.op = "calculate_institutional_entropy" =>
    LET s == ret.args[1]
        n == NoiseCount(s)
        hit == HitEntries(engine.reified_metaphors, s)
        k == Cardinality(hit)
        amplification == Scale + ChainStep * SumForces(engine.dependency_chains,
                                                       engine.reified_metaphors, hit)
        product == ((n * NoiseStep + k * MetaphorStep) * amplification) \div Scale
        total == IF product > Scale THEN Scale ELSE product
    IN /\ ret.raised = "none"
       /\ n \in 0..2
       /\ ret.value.base_snr = Scale - n * NoiseStep
       /\ ret.value.metaphor_count = k
       /\ ret.value.metaphor_entropy = k * MetaphorStep
       /\ ret.value.chain_amplification = amplification
       /\ ret.value.total_institutional_entropy = total
       /\ ret.value.signal_clarity = Scale - total

\* A score of a statement with both phrases of both noise categories: n is 2.
C1_BothPhrasesOfACategoryScored ==
  /\ ret.op = "calculate_institutional_entropy"
  /\ str_contains(ret.args[1], "I cannot") /\ str_contains(ret.args[1], "as an AI")
  /\ str_contains(ret.args[1], "universally") /\ str_contains(ret.args[1], "every human")
  /\ ret.raised = "none"
  /\ ret.value.base_snr = Scale - 2 * NoiseStep

\* C2: total_institutional_entropy and signal_clarity lie in [0, 1], for every
\* statement and every library the add operations lead to.
C2_ScoresWithinUnitInterval ==
  ret.op = "calculate_institutional_entropy" =>
    /\ ret.raised = "none"
    /\ ret.value.total_institutional_entropy \in 0..Scale
    /\ ret.value.signal_clarity \in 0..Scale

\* A score whose product exceeds 1 and is cut to 1, with an extended library.
C2_ProductCutToOne ==
  /\ ret.op = "calculate_institutional_entropy"
  /\ ret.raised = "none"
  /\ (ret.value.base_entropy + ret.value.metaphor_entropy) * ret.value.chain_amplification
        > Scale * Scale
  /\ ret.value.total_institutional_entropy = Scale
  /\ ret.value.signal_clarity = 0
  /\ REIFIED_METAPHORS # DefaultMetaphors

\* The context recorded for a hit of the pattern: 20 characters on either side.
ContextOf(s, pattern) ==
  LET m == search(pattern, s)
      from == IF m.start > ContextRadius THEN m.start - ContextRadius ELSE 0
      to == IF m.end + ContextRadius < Len(s) THEN m.end + ContextRadius ELSE Len(s)
  IN "..." \o SubSeq(s, from + 1, to) \o "..."

\* The position of a term in the catalog.
EntryOf(cat, term) == CHOOSE i \in 1..Len(cat) : cat[i].k = term

\* C3: detect_reified_metaphors returns one match for each catalog entry with a
\* pattern that hits and none for the others, in the order of the catalog, each
\* recorded for the first pattern in pattern order that hits; a statement that
\* hits no pattern yields the empty list; the call does not raise.
C3_OneMatchPerEntryInCatalogOrder ==
  ret.op = "detect_reified_metaphors" =>
    LET s == ret.args[1]
        cat == engine.reified_metaphors
        hit == HitEntries(cat, s)
        found == ret.value
    IN /\ ret.raised = "none"
       /\ hit = {} => found = <<>>
       /\ Len(found) = Cardinality(hit)
       /\ \A n \in 1..Len(found) :
            /\ \E i \in hit : cat[i].k = found[n].term
            /\ \A m \in 1..(n - 1) : EntryOf(cat, found[m].term) < EntryOf(cat, found[n].term)
            /\ LET patterns == cat[EntryOf(cat, found[n].term)].v.detection_patterns
               IN \E j \in 1..Len(patterns) :
                    /\ search(patterns[j], s).found
                    /\ \A e \in 1..(j - 1) : ~search(patterns[e], s).found
                    /\ found[n].location_in_statement = ContextOf(s, patterns[j])

\* A detection in which an entry has two patterns that hit, at different places,
\* and a later entry of the catalog hits earlier in the statement.
C3_SeveralPatternsOfAnEntryHit ==
  /\ ret.op = "detect_reified_metaphors"
  /\ \E n \in 1..Len(ret.value) :
       LET patterns == engine.reified_metaphors[EntryOf(engine.reified_metaphors,
                                                       ret.value[n].term)].v.detection_patterns
       IN \E i, j \in 1..Len(patterns) :
            /\ i < j
            /\ search(patterns[i], ret.args[1]).found
            /\ search(patterns[j], ret.args[1]).found
            /\ ContextOf(ret.args[1], patterns[i]) # ContextOf(ret.args[1], patterns[j])
  /\ \E n \in 1..Len(ret.value) : \E m \in 1..(n - 1) :
       WholeWordOccurrences(ret.args[1], ret.value[n].term) # {}
       /\ WholeWordOccurrences(ret.args[1], ret.value[m].term) # {}
       /\ \A a \in WholeWordOccurrences(ret.args[1], ret.value[n].term) :
            \A b \in WholeWordOccurrences(ret.args[1], ret.value[m].term) : a < b

\* C4: the cache does not show: detect_reified_metaphors returns what the scan
\* of the catalog yields for the statement at that moment, and whatever the
\* cache holds for a statement, which is what the first call on it returned
\* and what every later call returns, is what that scan yields.
C4_CacheDoesNotShow ==
  /\ ret.op = "detect_reified_metaphors" =>
       /\ ret.raised = "none"
       /\ ret.value = detect_scan(engine.reified_metaphors, ret.args[1])
       /\ dict_has(engine.analysis_cache, ret.args[1])
       /\ dict_get(engine.analysis_cache, ret.args[1]) = ret.value
  /\ \A i \in 1..Len(engine.analysis_cache) :
       /\ engine.analysis_cache[i].v
            = detect_scan(engine.reified_metaphors, engine.analysis_cache[i].k)
       /\ \A j \in 1..Len(engine.analysis_cache) :
            engine.analysis_cache[i].k = engine.analysis_cache[j].k => i = j

\* A second call that is served from the cache: the first call was a score with
\* noise of the one statement the cache holds, the second its detection.
C4_ServedFromCache ==
  /\ ret.op = "detect_reified_metaphors"
  /\ calls = 2
  /\ Len(engine.analysis_cache) = 1
  /\ engine.current_snr < Scale
  /\ Len(ret.value) > 0

\* The outcome of the recorded call on an engine fresh from construction.
OnFreshEngine ==
  IF ret.op = "detect_reified_metaphors"
    THEN detect_reified_metaphors(FreshEngine, ret.args[1])
  ELSE IF ret.op = "trace_dependency_chain"
    THEN trace_dependency_chain(FreshEngine, ret.args[1])
  ELSE IF ret.op = "calculate_institutional_entropy"
    THEN calculate_institutional_entropy(FreshEngine, ret.args[1])
  ELSE generate_functional_restatement(FreshEngine, ret.args[1], ret.args[2])

AnalysisOps ==
  {"detect_reified_metaphors", "trace_dependency_chain",
   "calculate_institutional_entropy", "generate_functional_restatement"}

\* C5: for a fixed catalog, what detect, trace_dependency_chain,
\* calculate_institutional_entropy and generate_functional_restatement return
\* for an input does not depend on the operations that ran before on the
\* engine: it is what an engine fresh from construction returns.
C5_HistoryIndependent ==
  ret.op \in AnalysisOps =>
    /\ ret.raised = OnFreshEngine.raised
    /\ ret.value = OnFreshEngine.value

\* A score of a noisy statement on an engine that holds locks and the matches
\* of another statement, from an operation that took both before.
C5_ScoreAfterOtherOperations ==
  /\ ret.op = "calculate_institutional_entropy"
  /\ ret.raised = "none"
  /\ ret.value.base_snr < Scale
  /\ Len(engine.analysis_cache) >= 2
  /\ Len(engine.active_variables) > 0

\* C6: generate_functional_restatement takes the matches in the order given and
\* replaces, for each, the first whole-word occurrence in any case of its term
\* in the statement as rewritten so far by its functional form verbatim, and no
\* other occurrence.
C6_RestatementReplacesFirstWholeWordInOrder ==
  ret.op = "generate_functional_restatement" =>
    /\ ret.raised = "none"
    /\ ret.value = Rewritten(ret.args[1], MatchesOf(ret))

\* A restatement of matches given in an order that matters, in which a term in
\* another case was replaced and the second occurrence of a term was kept.
C6_OrderAndFirstOccurrenceMatter ==
  /\ ret.op = "generate_functional_restatement"
  /\ ret.args[2].given
  /\ ret.value # Rewritten(ret.args[1], Reverse(MatchesOf(ret)))
  /\ \E n \in 1..Len(MatchesOf(ret)) :
       /\ Cardinality(WholeWordOccurrences(ret.args[1], MatchesOf(ret)[n].term)) >= 2
       /\ WholeWordOccurrences(ret.value, MatchesOf(ret)[n].term) # {}
       /\ str_contains(ret.value, MatchesOf(ret)[n].functional_form)

\* The statement as the first n matches of the call have rewritten it.
AfterMatches(call, n) == restate_loop(call.args[1], SubSeq(MatchesOf(call), 1, n), 1)

\* C7: generate_functional_restatement returns the statement unchanged when the
\* match list is empty, and a match whose term does not occur as a whole word
\* in the statement as rewritten so far leaves it unchanged; the call does not
\* raise.
C7_AbsentTermLeavesStatementUnchanged ==
  ret.op = "generate_functional_restatement" =>
    /\ ret.raised = "none"
    /\ MatchesOf(ret) = <<>> => ret.value = ret.args[1]
    /\ ret.value = AfterMatches(ret, Len(MatchesOf(ret)))
    /\ \A n \in 1..Len(MatchesOf(ret)) :
         WholeWordOccurrences(AfterMatches(ret, n - 1), MatchesOf(ret)[n].term) = {}
           => AfterMatches(ret, n) = AfterMatches(ret, n - 1)

\* A restatement with a match whose term is in the statement only as the
\* beginning of a longer word, and is not replaced.
C7_TermOnlyInsideLongerWord ==
  /\ ret.op = "generate_functional_restatement"
  /\ ret.raised = "none"
  /\ \E n \in 1..Len(MatchesOf(ret)) :
       /\ WholeWordOccurrences(AfterMatches(ret, n - 1), MatchesOf(ret)[n].term) = {}
       /\ str_contains(AfterMatches(ret, n - 1), MatchesOf(ret)[n].term)
       /\ AfterMatches(ret, n) = AfterMatches(ret, n - 1)

\* C8: trace_dependency_chain never raises: it returns an empty result for a
\* term without a dependency entry and one chain descriptor for a term with
\* one, whether or not the term has a catalog entry, in every library the add
\* operations lead to before the engine is built.
C8_TraceNeverRaises ==
  ret.op = "trace_dependency_chain" =>
    /\ ret.raised = "none"
    /\ ~dict_has(engine.dependency_chains, ret.args[1]) => ret.value = <<>>
    /\ dict_has(engine.dependency_chains, ret.args[1]) => Len(ret.value) = 1

\* C9: for a term with a dependency entry, trace_dependency_chain returns one
\* descriptor: its primary is the term, its forces are the configured list in
\* the configured order, and its mechanism contains the term, the reified_as
\* label of the term and every forced term.
C9_TraceReturnsTheConfiguredChain ==
  (ret.op = "trace_dependency_chain" /\ dict_has(engine.dependency_chains, ret.args[1])) =>
    /\ ret.raised = "none"
    /\ Len(ret.value) = 1
    /\ ret.value[1].primary = ret.args[1]
    /\ ret.value[1].forces = dict_get(engine.dependency_chains, ret.args[1])
    /\ str_contains(ret.value[1].mechanism, ret.args[1])
    /\ \A i \in 1..Len(ret.value[1].forces) :
         str_contains(ret.value[1].mechanism, ret.value[1].forces[i])
    /\ dict_has(engine.reified_metaphors, ret.args[1]) =>
         str_contains(ret.value[1].mechanism,
                      dict_get(engine.reified_metaphors, ret.args[1]).reified_as)

\* C10: the lock record holds one entry for each term locked so far, with the
\* definition of the last lock of the term, in the order in which the terms
\* were first locked.
C10_LockRecordKeepsFirstInsertionOrder ==
  LET locks == engine.active_variables
      events == engine.lock_events
  IN /\ {locks[i].k : i \in 1..Len(locks)} = {events[i].name : i \in 1..Len(events)}
     /\ \A i, j \in 1..Len(locks) : locks[i].k = locks[j].k => i = j
     /\ \A i \in 1..Len(locks) : locks[i].v = events[LastLock(events, locks[i].k)].value
     /\ \A i, j \in 1..Len(locks) :
          i < j => FirstLock(events, locks[i].k) < FirstLock(events, locks[j].k)

\* A record in which a term that is not the last one was locked again, with
\* another definition, after the term that follows it.
C10_RelockedTermKeepsItsPlace ==
  LET locks == engine.active_variables
      events == engine.lock_events
  IN \E i \in 1..(Len(locks) - 1) :
       /\ LastLock(events, locks[i].k) > FirstLock(events, locks[i + 1].k)
       /\ events[FirstLock(events, locks[i].k)].value # locks[i].v

\* The terms of a list of matches.
TermsOf(matches) == {matches[n].term : n \in 1..Len(matches)}

\* The lock the mapping of auto_lock_from_statement makes of a match.
LockOf(match) ==
  [type |-> match.functional_form,
   range |-> match.variable_range,
   context_dependent |-> TRUE,
   dependencies |-> match.dependencies,
   locked_from_reified_form |-> match.reified_as]

\* C11: auto_lock_from_statement(s) returns the matches detect finds in s and
\* leaves, for every match, the lock {type: functional_form, range:
\* variable_range, context_dependent: true, dependencies,
\* locked_from_reified_form: reified_as} under the term of the match; the
\* locks of the terms not detected in s are what they were, and no other
\* lock appears.
C11_AutoLockLocksEveryMatch ==
  [][(calls' = calls + 1 /\ ret'.op = "auto_lock_from_statement") =>
       LET found == detect_scan(engine.reified_metaphors, ret'.args[1])
           before == engine.active_variables
           after == engine'.active_variables
       IN /\ ret'.raised = "none"
          /\ ret'.value = found
          /\ \A n \in 1..Len(found) :
               dict_has(after, found[n].term) /\ dict_get(after, found[n].term) = LockOf(found[n])
          /\ \A i \in 1..Len(before) :
               before[i].k \notin TermsOf(found) =>
                 dict_has(after, before[i].k) /\ dict_get(after, before[i].k) = before[i].v
          /\ {after[i].k : i \in 1..Len(after)}
               = {before[i].k : i \in 1..Len(before)} \cup TermsOf(found)]_vars

\* An auto-lock of several matches on an engine that holds the lock of a term
\* the statement does not have.
C11_AutoLockBesideAnotherLock ==
  /\ ret.op = "auto_lock_from_statement"
  /\ Len(ret.value) >= 2
  /\ \A n \in 1..Len(ret.value) :
       dict_get(engine.active_variables, ret.value[n].term) = LockOf(ret.value[n])
  /\ \E i \in 1..Len(engine.active_variables) :
       engine.active_variables[i].k \notin TermsOf(ret.value)

\* The operations that read the engine, and those that lock.
ReadingOps ==
  {"detect_reified_metaphors", "trace_dependency_chain", "calculate_institutional_entropy",
   "generate_functional_restatement", "suggest_variable_locks"}

LockingOps ==
  {"lock_variable", "auto_lock_from_statement", "full_analysis",
   "generate_renormalization_vector"}

\* C12: detect, trace, calculate, restate and suggest_variable_locks leave
\* the lock record of the engine as it was, and a step that changes the lock
\* record is a step of lock_variable, auto_lock_from_statement, full_analysis
\* or generate_renormalization_vector.
C12_OnlyLockingOperationsChangeTheLockRecord ==
  [][/\ (calls' = calls + 1 /\ ret'.op \in ReadingOps) =>
          /\ engine'.active_variables = engine.active_variables
          /\ engine'.lock_events = engine.lock_events
     /\ engine'.active_variables # engine.active_variables =>
          (calls' = calls + 1 /\ ret'.op \in LockingOps)]_vars

\* Locks are suggested for several terms of a statement, and the engine,
\* which holds another lock, has none of them.
C12_SuggestedButNotLocked ==
  /\ ret.op = "suggest_variable_locks"
  /\ Len(ret.value) >= 2
  /\ Len(engine.active_variables) >= 1
  /\ \A n \in 1..Len(ret.value) : ~dict_has(engine.active_variables, ret.value[n].k)

\* C13: the locked_variables of a report of batch_analyze is the lock record
\* as it was when the report was made: the record after the statements up to
\* the report's own, whatever the later statements of the batch lock.
C13_ReportKeepsItsLockRecord ==
  (ret.op = "batch_analyze" /\ ret.raised = "none") =>
    \A n \in 1..Len(ret.value) :
      ret.value[n].locked_variables
        = batch_analyze(REIFIED_METAPHORS, DEPENDENCY_CHAINS,
                        SubSeq(ret.args[1], 1, n)).self.active_variables

\* C14: requires_renormalization of a report of full_analysis is true exactly
\* when the signal_clarity of the report's entropy_report is below 0.7, the
\* clarity calculate_institutional_entropy gives the statement; a statement
\* with an institutional-shunt phrase and two or more entries that hit is
\* flagged.
C14_FlaggedIffClarityBelowThreshold ==
  (ret.op = "full_analysis" /\ ret.raised = "none") =>
    /\ ret.value.requires_renormalization
         <=> (ret.value.entropy_report.signal_clarity < ClarityThreshold)
    /\ ret.value.entropy_report
         = calculate_institutional_entropy(FreshEngine, ret.args[1]).value
    /\ ( /\ str_contains(ret.args[1], "I cannot") \/ str_contains(ret.args[1], "as an AI")
         /\ Cardinality(HitEntries(engine.reified_metaphors, ret.args[1])) >= 2 )
       => ret.value.requires_renormalization

\* The statement of test_full_integration is flagged: a shunt phrase and
\* several metaphors, with a base audit that alone is above the threshold.
C14_ShuntAndMetaphorsFlagged ==
  /\ ret.op = "full_analysis"
  /\ ret.raised = "none"
  /\ ret.value.base_audit.noise_types = <<"Institutional_Shunt">>
  /\ ret.value.base_audit.snr >= ClarityThreshold
  /\ Len(ret.value.reified_metaphors) >= 2
  /\ ret.value.requires_renormalization

\* C15: for a statement no pattern of the catalog hits, metaphor_count is 0,
\* metaphor_entropy 0.0, chain_amplification 1.0 and the total is the base
\* noise entropy, 0.1 for each noise category present; with no noise phrase
\* either, base_snr is 1.0, the total 0.0 and signal_clarity 1.0.
C15_NoHitLeavesTheBaseNoise ==
  ( /\ ret.op = "calculate_institutional_entropy"
    /\ ret.raised = "none"
    /\ HitEntries(engine.reified_metaphors, ret.args[1]) = {} ) =>
    /\ ret.value.metaphor_count = 0
    /\ ret.value.metaphor_entropy = 0
    /\ ret.value.chain_amplification = Scale
    /\ ret.value.total_institutional_entropy = NoiseCount(ret.args[1]) * NoiseStep
    /\ ret.value.total_institutional_entropy = Scale - ret.value.base_snr
    /\ NoiseCount(ret.args[1]) = 0 =>
         /\ ret.value.base_snr = Scale
         /\ ret.value.total_institutional_entropy = 0
         /\ ret.value.signal_clarity = Scale

\* A statement with noise phrases that no pattern hits has been scored.
C15_NoiseWithoutMetaphors ==
  /\ ret.op = "calculate_institutional_entropy"
  /\ HitEntries(engine.reified_metaphors, ret.args[1]) = {}
  /\ NoiseCount(ret.args[1]) > 0
  /\ ret.value.total_institutional_entropy > 0

\* The catalog without the entry of a term.
Without(cat, term) == SelectSeq(cat, LAMBDA item : item.k # term)

\* C16: metaphor_entropy is 0.15 times the number of matches, and a match
\* whose term has no dependency entry adds exactly 0.15 to metaphor_entropy
\* and nothing to chain_amplification: with the entry of the term taken out
\* of the catalog, the other matches stay, metaphor_entropy is 0.15 less and
\* chain_amplification the same.
C16_ChainlessMatchAddsOneStep ==
  (ret.op = "calculate_institutional_entropy" /\ ret.raised = "none") =>
    /\ ret.value.metaphor_entropy
         = MetaphorStep * Cardinality(HitEntries(engine.reified_metaphors, ret.args[1]))
    /\ \A i \in HitEntries(engine.reified_metaphors, ret.args[1]) :
         ~dict_has(engine.dependency_chains, engine.reified_metaphors[i].k) =>
           LET term == engine.reified_metaphors[i].k
               smaller == MatrixEngine(Without(engine.reified_metaphors, term),
                                       engine.dependency_chains, <<>>)
               less == calculate_institutional_entropy(smaller, ret.args[1])
           IN /\ less.raised = "none"
              /\ less.value.metaphor_count = ret.value.metaphor_count - 1
              /\ ret.value.metaphor_entropy = less.value.metaphor_entropy + MetaphorStep
              /\ ret.value.chain_amplification = less.value.chain_amplification

\* A score with a match that has no dependency entry among matches that
\* have one.
C16_ChainlessAmongChained ==
  /\ ret.op = "calculate_institutional_entropy"
  /\ ret.raised = "none"
  /\ ret.value.chain_amplification > Scale
  /\ \E i \in HitEntries(engine.reified_metaphors, ret.args[1]) :
       ~dict_has(engine.dependency_chains, engine.reified_metaphors[i].k)

\* The text a pattern \bword\b looks for.
PatternWord(pattern) ==
  IF Len(pattern) >= 4 /\ SubSeq(pattern, 1, 2) = "\\b"
     /\ SubSeq(pattern, Len(pattern) - 1, Len(pattern)) = "\\b"
  THEN SubSeq(pattern, 3, Len(pattern) - 2)
  ELSE pattern

\* The term is in s, in any case, but nowhere as a whole word.
OnlyInsideLargerWords(s, term) ==
  /\ str_contains(str_lower(s), str_lower(term))
  /\ WholeWordOccurrences(s, term) = {}

\* C17 as stated: with the default catalog, a statement that has a catalog
\* term only inside larger words gives no match for that term.
C17_TermInsideLargerWordNeverMatched ==
  ( /\ ret.op = "detect_reified_metaphors"
    /\ engine.reified_metaphors = DefaultMetaphors ) =>
    \A i \in 1..Len(DefaultMetaphors) :
      OnlyInsideLargerWords(ret.args[1], DefaultMetaphors[i].k)
        => DefaultMetaphors[i].k \notin TermsOf(ret.value)

\* C17, amended: a pattern hits whole words only, so an entry none of whose
\* pattern words stands in the statement as a whole word gives no match,
\* whatever it has inside larger words ("natural" in "supernatural events");
\* a term that is only inside a larger word is still matched when the
\* larger word is a pattern of its entry ("objective" in "objectively").
C17_NoMatchUnlessAPatternWordStandsAlone ==
  ret.op = "detect_reified_metaphors" =>
    /\ ret.raised = "none"
    /\ \A i \in 1..Len(engine.reified_metaphors) :
         LET entry == engine.reified_metaphors[i]
         IN (\A j \in 1..Len(entry.v.detection_patterns) :
               WholeWordOccurrences(ret.args[1], PatternWord(entry.v.detection_patterns[j])) = {})
              => entry.k \notin TermsOf(ret.value)

\* Detection over a statement with "supernatural": "natural" is inside the
\* larger word only, and the entry does not match.
C17_NaturalInsideSupernatural ==
  /\ ret.op = "detect_reified_metaphors"
  /\ OnlyInsideLargerWords(ret.args[1], "natural")
  /\ dict_has(engine.reified_metaphors, "natural")
  /\ "natural" \notin TermsOf(ret.value)

\* The entry the arguments of add_custom_metaphor describe.
EntryFrom(m) ==
  [reified_as |-> m.reified_as,
   functional_form |-> m.functional_form,
   range |-> m.value_range,
   depends_on |-> m.dependencies,
   institutional_function |-> m.institutional_function,
   detection_patterns |-> m.patterns]

\* after is before with the value put under the key: one entry for each
\* key, the keys in the order of their first insertion, the value under the
\* key and every other entry as it was.
Overwritten(before, after, key, value) ==
  /\ \A i, j \in 1..Len(after) : after[i].k = after[j].k => i = j
  /\ dict_keys(after) = IF \E i \in 1..Len(before) : before[i].k = key
                        THEN dict_keys(before)
                        ELSE Append(dict_keys(before), key)
  /\ \A i \in 1..Len(after) :
       after[i].v = IF after[i].k = key THEN value ELSE before[i].v

\* C18: an addition to a library, flat or modular, of a metaphor or of a
\* chain, overwrites by key: the library has one entry for each term, the
\* one added last, an overwritten term keeps its position and a new term
\* goes last; list_all_metaphors and list_all return the terms in that
\* order.
C18_AdditionOverwritesByKey ==
  [][calls' = calls + 1 =>
       /\ ret'.op = "add_custom_metaphor" =>
            /\ Overwritten(REIFIED_METAPHORS, REIFIED_METAPHORS',
                           ret'.args[1].name, EntryFrom(ret'.args[1]))
            /\ ret'.value = EntryFrom(ret'.args[1])
       /\ ret'.op = "metaphor_helpers.add_custom_metaphor" =>
            /\ Overwritten(LIBRARY.metaphors, LIBRARY'.metaphors,
                           ret'.args[1].name, EntryFrom(ret'.args[1]))
            /\ ret'.value = EntryFrom(ret'.args[1])
       /\ ret'.op = "LIBRARY.add_metaphor" =>
            IF ret'.raised = "none"
            THEN Overwritten(LIBRARY.metaphors, LIBRARY'.metaphors,
                             ret'.args[1].name, ret'.args[1])
            ELSE LIBRARY' = LIBRARY
       /\ ret'.op = "add_dependency_chain" =>
            Overwritten(DEPENDENCY_CHAINS, DEPENDENCY_CHAINS',
                        ret'.args[1].primary, ret'.args[1].forced_dependencies)
       /\ ret'.op = "LIBRARY.add_chain" =>
            Overwritten(LIBRARY.chains, LIBRARY'.chains,
                        ret'.args[1].primary, ret'.args[1].forced_dependencies)
       /\ ret'.op = "list_all_metaphors" =>
            /\ Len(ret'.value) = Len(REIFIED_METAPHORS)
            /\ \A i \in 1..Len(ret'.value) : ret'.value[i] = REIFIED_METAPHORS[i].k
       /\ ret'.op = "LIBRARY.list_all" =>
            /\ Len(ret'.value) = Len(LIBRARY.metaphors)
            /\ \A i \in 1..Len(ret'.value) : ret'.value[i] = LIBRARY.metaphors[i].k]_vars

\* The flat library lists its terms after "safety", a term of the default
\* library, was overwritten and a new term added: "safety" is in its fifth
\* place with the new entry, the new term is last.
C18_OverwrittenTermListedInItsPlace ==
  /\ ret.op = "list_all_metaphors"
  /\ Len(ret.value) = Len(DefaultMetaphors) + 1
  /\ ret.value[5] = "safety"
  /\ dict_get(REIFIED_METAPHORS, "safety") # dict_get(DefaultMetaphors, "safety")
  /\ ret.value[Len(ret.value)] \notin {DefaultMetaphors[i].k : i \in 1..Len(DefaultMetaphors)}

\* The entry has every field, a value range and a detection pattern.
WellFormed(entry) ==
  /\ {"reified_as", "functional_form", "range", "depends_on",
      "institutional_function", "detection_patterns"} \subseteq DOMAIN entry
  /\ entry.range # <<>>
  /\ entry.detection_patterns # <<>>

\* C19: an addition of a malformed metaphor fails at the call with a
\* validation error and leaves the catalog as it was, so every entry of
\* every catalog, flat or modular, has its fields, a non-empty range and a
\* non-empty pattern list.
C19_EveryEntryIsWellFormed ==
  /\ \A i \in 1..Len(REIFIED_METAPHORS) : WellFormed(REIFIED_METAPHORS[i].v)
  /\ \A i \in 1..Len(LIBRARY.metaphors) : WellFormed(LIBRARY.metaphors[i].v)
  /\ ( /\ ret.op \in {"add_custom_metaphor", "metaphor_helpers.add_custom_metaphor"}
       /\ ~WellFormed(EntryFrom(ret.args[1])) ) => ret.raised # "none"

\* The keyword is in the text at position i, letter case apart.
KeywordAt(text, keyword, i) ==
  /\ i + Len(keyword) - 1 <= Len(text)
  /\ \A n \in 1..Len(keyword) :
       lower(SubSeq(text, i + n - 1, i + n - 1)) = lower(SubSeq(keyword, n, n))

\* The entry has an institutional_function with the keyword in it.
FunctionHas(entry, keyword) ==
  /\ "institutional_function" \in DOMAIN entry
  /\ \E i \in 1..Len(entry.institutional_function) :
       KeywordAt(entry.institutional_function, keyword, i)

\* The library a search has read.
Searched_library ==
  IF ret.op = "search_by_function" THEN REIFIED_METAPHORS ELSE LIBRARY.metaphors

\* C20: search_by_function(keyword) returns without an error, in the order
\* of the catalog, the terms whose institutional_function has the keyword,
\* letter case apart, an empty list when there is none; in the default
\* catalog "control" and "hierarchy" each find a term.
C20_SearchReturnsTheTermsOfTheFunction ==
  ret.op \in {"search_by_function", "metaphor_helpers.search_by_function"} =>
    /\ ret.raised = "none"
    /\ ret.value = dict_keys(SelectSeq(Searched_library,
                                       LAMBDA item : FunctionHas(item.v, ret.args[1])))
    /\ ( /\ dict_keys(Searched_library) \in {dict_keys(DefaultMetaphors), ModularOrder}
         /\ ret.args[1] \in {"control", "hierarchy"} ) => Len(ret.value) >= 1

\* The positions, in the library, of the entries add_custom_metaphor has put
\* there.
AddedEntries ==
  {i \in 1..Len(REIFIED_METAPHORS) :
     ~dict_has(DefaultMetaphors, REIFIED_METAPHORS[i].k)
     \/ dict_get(DefaultMetaphors, REIFIED_METAPHORS[i].k) # REIFIED_METAPHORS[i].v}

\* C21: an engine made after add_custom_metaphor detects the added metaphor:
\* for a statement that a pattern of the added entry hits, the matches of
\* detect_reified_metaphors include the term, with the forms of the added
\* entry.
C21_AddedMetaphorIsDetected ==
  ret.op = "detect_reified_metaphors" =>
    \A i \in AddedEntries \cap HitEntries(REIFIED_METAPHORS, ret.args[1]) :
      \E n \in 1..Len(ret.value) :
        /\ ret.value[n].term = REIFIED_METAPHORS[i].k
        /\ ret.value[n].reified_as = REIFIED_METAPHORS[i].v.reified_as
        /\ ret.value[n].functional_form = REIFIED_METAPHORS[i].v.functional_form

\* A term that is not in the shipped library is among the matches.
C21_NewTermAmongTheMatches ==
  /\ ret.op = "detect_reified_metaphors"
  /\ \E n \in 1..Len(ret.value) : ~dict_has(DefaultMetaphors, ret.value[n].term)
  /\ Len(ret.value) >= 2

\* C24 as stated: with the default catalog no substitution of
\* generate_functional_restatement rewrites what an earlier one put in: the
\* functional form of every term that was replaced is in the result.
C24_InsertedFormsStayIntact ==
  ( /\ ret.op = "generate_functional_restatement"
    /\ ret.raised = "none"
    /\ engine.reified_metaphors = DefaultMetaphors ) =>
    \A n \in 1..Len(MatchesOf(ret)) :
      AfterMatches(ret, n) # AfterMatches(ret, n - 1)
        => str_contains(ret.value, MatchesOf(ret)[n].functional_form)

\* C24, amended: the substitutions are sequential, each on the statement as
\* the earlier ones left it: the result after the n-th match is the result
\* after the (n-1)-th with the first whole-word occurrence of the n-th term
\* replaced, be that occurrence in the text of the original statement or in
\* a functional form put in before ("objective" in "multi-objective
\* optimization target").
C24_SubstitutionsAreSequential ==
  (ret.op = "generate_functional_restatement" /\ ret.raised = "none") =>
    /\ ret.value = AfterMatches(ret, Len(MatchesOf(ret)))
    /\ \A n \in 1..Len(MatchesOf(ret)) :
         AfterMatches(ret, n)
           = ReplaceFirstWord(AfterMatches(ret, n - 1), MatchesOf(ret)[n].term,
                              MatchesOf(ret)[n].functional_form)

\* A restatement in which a later substitution has rewritten the functional
\* form an earlier one put in.
C24_InsertedFormRewritten ==
  /\ ret.op = "generate_functional_restatement"
  /\ ret.raised = "none"
  /\ \E k, n \in 1..Len(MatchesOf(ret)) :
       /\ k < n
       /\ str_contains(AfterMatches(ret, n - 1), MatchesOf(ret)[k].functional_form)
       /\ ~str_contains(AfterMatches(ret, n), MatchesOf(ret)[k].functional_form)
       /\ ~str_contains(str_lower(ret.args[1]), str_lower(MatchesOf(ret)[k].functional_form))

\* C27: the set of locked terms of an engine never shrinks: every term a
\* lock was announced for is in active_variables, and after full_analysis(s)
\* or generate_renormalization_vector(s) every term detected in s is there.
C27_LockedTermsStayLocked ==
  /\ \A i \in 1..Len(engine.lock_events) :
       dict_has(engine.active_variables, engine.lock_events[i].name)
  /\ (ret.op \in {"full_analysis", "generate_renormalization_vector"} /\ ret.raised = "none") =>
       \A i \in HitEntries(engine.reified_metaphors, ret.args[1]) :
         dict_has(engine.active_variables, engine.reified_metaphors[i].k)

\* After a full analysis that locked several terms, a term locked before it
\* by lock_variable is locked still.
C27_EarlierLockOutlastsAnalysis ==
  /\ ret.op = "full_analysis"
  /\ Len(ret.value.reified_metaphors) >= 2
  /\ \E i \in 1..Len(engine.active_variables) :
       engine.active_variables[i].k \notin TermsOf(ret.value.reified_metaphors)

\* C22: the lock record is never shared across sessions: a step of one
\* engine (lock_variable, auto_lock_from_statement, full_analysis or any
\* other call of it) leaves active_variables of the other engine as it was,
\* and an engine just constructed has no lock.
C22_SessionsKeepTheirOwnLocks ==
  [][ /\ engine' # engine => other'.active_variables = other.active_variables
      /\ other' # other => engine'.active_variables = engine.active_variables
      /\ (~built /\ built') => engine'.active_variables = <<>>
      /\ (other = NoEngine /\ other' # NoEngine) => other'.active_variables = <<>> ]_vars

\* The first engine has locked the terms of a full analysis and the second
\* engine, which exists, has none of them.
C22_LocksOfOneEngineOnly ==
  /\ other # NoEngine
  /\ ret.op = "full_analysis"
  /\ Len(ret.value.reified_metaphors) >= 2
  /\ \A n \in 1..Len(ret.value.reified_metaphors) :
       dict_has(engine.active_variables, ret.value.reified_metaphors[n].term)
  /\ other.active_variables = <<>>

\* C30: the catalog of an engine is fixed at construction. Constructing an
\* engine with custom_metaphors leaves the dicts of the library (and the
\* engine that exists) unchanged, and its catalog is the library's with the
\* custom entries added or put in place of the library's; an
\* add_custom_metaphor or add_dependency_chain after the construction leaves
\* both engines unchanged, and the engine constructed before detects and
\* traces nothing of the new term.
C30_CatalogFixedAtConstruction ==
  [][ /\ (other = NoEngine /\ other' # NoEngine) =>
           /\ REIFIED_METAPHORS' = REIFIED_METAPHORS
           /\ DEPENDENCY_CHAINS' = DEPENDENCY_CHAINS
           /\ LIBRARY' = LIBRARY
           /\ engine' = engine
           /\ \E a \in OtherArgs :
                LET base == IF a.library = "flat" THEN REIFIED_METAPHORS ELSE LIBRARY.metaphors
                    custom == a.custom_metaphors
                    keys == SeqRange(dict_keys(base)) \cup SeqRange(dict_keys(custom))
                IN /\ SeqRange(dict_keys(other'.reified_metaphors)) = keys
                   /\ \A k \in keys :
                        dict_get(other'.reified_metaphors, k)
                          = IF dict_has(custom, k) THEN dict_get(custom, k)
                            ELSE dict_get(base, k)
      /\ (REIFIED_METAPHORS' # REIFIED_METAPHORS \/ DEPENDENCY_CHAINS' # DEPENDENCY_CHAINS) =>
           (engine' = engine /\ other' = other)
      /\ (built /\ engine' # engine) =>
           /\ engine'.reified_metaphors = engine.reified_metaphors
           /\ engine'.dependency_chains = engine.dependency_chains
      /\ (ret'.op = "detect_reified_metaphors" /\ calls' # calls) =>
           "authentic" \notin TermsOf(ret'.value)
      /\ (ret'.op = "trace_dependency_chain" /\ calls' # calls) =>
           (ret'.args[1] = "authentic" => ret'.value = <<>>) ]_vars

\* The library holds the term "authentic", added after the engine was made,
\* and the detection the engine has run since, on a statement with the word,
\* returned the term of the shipped catalog only.
C30_LateTermNotDetected ==
  /\ dict_has(REIFIED_METAPHORS, "authentic")
  /\ ~dict_has(engine.reified_metaphors, "authentic")
  /\ ret.op = "detect_reified_metaphors"
  /\ ret.args[1] = "Keep authentic safety"
  /\ TermsOf(ret.value) = {"safety"}

\* C28: a full analysis that detected no metaphor never asks for
\* re-normalization, whatever the noise (total entropy at most 0.2, clarity
\* at least 0.8); on the shipped catalog and chains and a statement with no
\* noise phrase it asks for re-normalization exactly when it detected two
\* metaphors or more.
C28_RenormalizationFromTwoMetaphors ==
  (ret.op = "full_analysis" /\ ret.raised = "none") =>
    /\ Len(ret.value.reified_metaphors) = 0 =>
         /\ ~ret.value.requires_renormalization
         /\ ret.value.entropy_report.total_institutional_entropy <= 200
         /\ ret.value.entropy_report.signal_clarity >= 800
    /\ (engine.reified_metaphors = DefaultMetaphors /\ engine.dependency_chains = DefaultChains) =>
         (ret.value.base_audit.noise_types = <<>> =>
            (ret.value.requires_renormalization <=> Len(ret.value.reified_metaphors) >= 2))

\* A full analysis of a statement without noise that detected one metaphor
\* of the shipped catalog: clarity 0.805, no re-normalization asked for.
C28_OneMetaphorNotFlagged ==
  /\ ret.op = "full_analysis"
  /\ engine.reified_metaphors = DefaultMetaphors
  /\ ret.value.base_audit.noise_types = <<>>
  /\ Len(ret.value.reified_metaphors) = 1
  /\ ret.value.entropy_report.signal_clarity = 805
  /\ ~ret.value.requires_renormalization

\* C23: a match sequence returned by detect_reified_metaphors is owned by
\* the call that produced it: whatever the caller did to a sequence it was
\* given, a later detect_reified_metaphors or full_analysis of the engine
\* returns for the statement the matches of a scan of the statement with
\* the catalog of the engine.
C23_ReturnedMatchesOwnedByTheCall ==
  /\ (ret.op = "detect_reified_metaphors" /\ ret.raised = "none") =>
       ret.value = detect_scan(engine.reified_metaphors, ret.args[1])
  /\ (ret.op = "full_analysis" /\ ret.raised = "none") =>
       /\ ret.value.reified_metaphors = detect_scan(engine.reified_metaphors, ret.args[1])
       /\ ret.value.entropy_report.metaphor_count
            = Len(detect_scan(engine.reified_metaphors, ret.args[1]))

\* C25: the modular library and the flat one define the same catalog, in
\* the same order, and the same chains, so that an engine built on the
\* modular library returns for every statement the ordered matches an
\* engine built on the flat library returns.
C25_ModularCatalogIsTheFlatCatalog ==
  /\ LIBRARY.chains = DefaultChains
  /\ \A i \in 1..Len(LIBRARY.metaphors) :
       /\ dict_has(DefaultMetaphors, LIBRARY.metaphors[i].k)
       /\ dict_get(DefaultMetaphors, LIBRARY.metaphors[i].k) = LIBRARY.metaphors[i].v
  /\ Len(LIBRARY.metaphors) = Len(DefaultMetaphors)
  /\ (ret.op = "other.detect_reified_metaphors" /\ other.reified_metaphors = LIBRARY.metaphors)
       => ret.value = detect_scan(DefaultMetaphors, ret.args[1])

\* C26: calculate_institutional_entropy of integrated_example.py returns
\* the total_institutional_entropy and the signal_clarity that the one of
\* matrix_engine.py returns for the same catalog, chains and statement: 0.0
\* and 1.0 for a statement with no noise phrase and no metaphor.
C26_IntegratedExampleReportsTheSameEntropy ==
  (ret.op = "integrated_example.calculate_institutional_entropy" /\ ret.raised = "none") =>
    With(calculate_institutional_entropy(FreshEngine, ret.args[1]).value, LAMBDA report :
      /\ ret.value.total_institutional_entropy = report.total_institutional_entropy
      /\ ret.value.signal_clarity = report.signal_clarity
      /\ (ret.value.base_snr = Scale /\ ret.value.metaphor_count = 0) =>
           (ret.value.total_institutional_entropy = 0 /\ ret.value.signal_clarity = Scale))

\* C29: process_expansion returns a result for every statement, the
\* re-normalization message when the audit is not coherent, and never ends
\* in an error.
C29_ProcessExpansionAlwaysReturns ==
  ret.op = "process_expansion" =>
    /\ ret.raised = "none"
    /\ ~decoherence_detector(FreshEngine, ret.args[1]).value.is_coherent =>
         ret.value = re_normalize(decoherence_detector(FreshEngine, ret.args[1]).value)

====
